---- MODULE Spec2Model ----
(***************************************************************************)
(* Model of the Veramo backend service: the session-store server           *)
(* (server-decentralized.js) and the persistent server (server.js).        *)
(*                                                                         *)
(* JavaScript strings are sequences of one-character strings, so that      *)
(* template literals are concatenations, String.split and the address      *)
(* regular expression are computed character by character.  The value     *)
(* undefined is the one-element sequence Undefined, which is no string the *)
(* program handles.                                                        *)
(***************************************************************************)
EXTENDS Integers, Sequences, FiniteSets, TLC

\* ------------------------------------------------------------------ bounds
\* Requests issued in one behaviour (each request slot is used once).
MaxReq == 2
\* Last instant of the clock read by Date.now() / new Date().
MaxTime == 1

VARIABLES
    server,       \* which server runs: "session", "persistent", "persistent0"
    env,          \* process.env
    now,          \* the clock
    dids,         \* DIDRegistry.dids (session-store server)
    identifiers,  \* the agent's identifier store (DIDStore and KeyStore)
    keySeq,       \* number of keys the agent has generated
    credentials,  \* VCStore.credentials
    presentations, \* VCStore.presentations
    boot,         \* start-up of the process: initializeAgent()
    req           \* the requests: position in the handler, body, response

vars == <<server, env, now, dids, identifiers, keySeq, credentials, presentations, boot, req>>

\* ------------------------------------------------------------- JS values
Undefined == <<"undefined">>
EmptyString == << >>

\* Mutant: every value passes for present.
Truthy_Always(v) == TRUE

\* JavaScript truthiness of a string-or-undefined value.
Truthy(v) == v # Undefined /\ v # EmptyString

\* a || b
OrElse(a, b) == IF Truthy(a) THEN a ELSE b

\* n copies of the character c
Rep(c, n) == [i \in 1..n |-> c]

Str_did == <<"d", "i", "d">>
Str_ethr == <<"e", "t", "h", "r">>
Str_key == <<"k", "e", "y">>
Str_web == <<"w", "e", "b">>
Colon == <<":">>
Str_did_ethr == Str_did \o Colon \o Str_ethr
Str_did_key == Str_did \o Colon \o Str_key
Str_did_web == Str_did \o Colon \o Str_web
Str_skale == <<"s", "k", "a", "l", "e">>
Str_skale_titan == Str_skale \o <<"-", "t", "i", "t", "a", "n">>
Str_sepolia == <<"s", "e", "p", "o", "l", "i", "a">>
Str_mainnet == <<"m", "a", "i", "n", "n", "e", "t">>
Str_wallet_dash == <<"w", "a", "l", "l", "e", "t", "-">>
Str_wallet_based == <<"w", "a", "l", "l", "e", "t", "-", "b", "a", "s", "e", "d">>
Str_generated_key == <<"g", "e", "n", "e", "r", "a", "t", "e", "d", "-", "k", "e", "y">>
Str_self_issued == <<"s", "e", "l", "f", "-", "i", "s", "s", "u", "e", "d">>
Str_controller == <<"#", "c", "o", "n", "t", "r", "o", "l", "l", "e", "r">>

DigitChars == <<"0", "1", "2", "3", "4", "5", "6", "7", "8", "9">>
HexChars ==
    {DigitChars[i] : i \in 1..10}
        \cup {"a", "b", "c", "d", "e", "f", "A", "B", "C", "D", "E", "F"}

RECURSIVE NumberToString(_)
\* The decimal digits of a number, as a template literal writes it
NumberToString(n) ==
    IF n < 10
    THEN <<DigitChars[n + 1]>>
    ELSE NumberToString(n \div 10) \o <<DigitChars[(n % 10) + 1]>>

\* String.prototype.slice(0, n)
SliceTo(s, n) == SubSeq(s, 1, IF Len(s) < n THEN Len(s) ELSE n)

\* String.prototype.startsWith
StartsWith(s, p) == Len(s) >= Len(p) /\ SubSeq(s, 1, Len(p)) = p

\* Mutant: the pattern without its end anchor.
IsWalletAddress_Unanchored(s) ==
    /\ Len(s) >= 42
    /\ s[1] = "0"
    /\ s[2] = "x"
    /\ \A i \in 3..42 : s[i] \in HexChars

\* /^0x[a-fA-F0-9]{40}$/.test(s), for s a string
IsWalletAddress(s) ==
    /\ Len(s) = 42
    /\ s[1] = "0"
    /\ s[2] = "x"
    /\ \A i \in 3..42 : s[i] \in HexChars

\* String.prototype.split(":"): the segments between the colons.
RECURSIVE SplitFrom(_, _, _)
SplitFrom(s, i, cur) ==
    IF i > Len(s) THEN <<cur>>
    ELSE IF s[i] = ":" THEN <<cur>> \o SplitFrom(s, i + 1, << >>)
    ELSE SplitFrom(s, i + 1, Append(cur, s[i]))

Split(s) == SplitFrom(s, 1, << >>)

\* Error messages and notes are sequences of words, not of characters: the
\* program only copies them, concatenates them and searches them for a phrase.
\* String.prototype.includes, on messages (sequences of phrases)
Includes(msg, phrase) == \E i \in 1..Len(msg) : msg[i] = phrase

Msg_InvalidWallet == <<"Invalid Ethereum wallet address format. Must be a 40-character hex string starting with '0x'">>
Msg_InvalidProvider == <<"Invalid provider or missing required parameters">>
Msg_ReferenceError == <<"error is not defined">>
Msg_AlreadyExists == <<"Wallet-based DID already exists">>
Msg_Created == <<"Wallet-based DID created successfully">>
Msg_AgentFailure == <<"agent failure">>

\* ------------------------------------------------- network configuration
\* process.env, read at start-up and by every getNetworkConfig() call.
EnvWith(network, providerUrl, registryAddress, registrySepolia) ==
    [ETH_NETWORK |-> network,
     ETH_PROVIDER_URL |-> providerUrl,
     ETH_REGISTRY_ADDRESS |-> registryAddress,
     ETH_REGISTRY_ADDRESS_SEPOLIA |-> registrySepolia]

EnvOf(network, providerUrl, registryAddress) ==
    EnvWith(network, providerUrl, registryAddress, Undefined)

Url_SkaleTitan == <<"https://testnet.skalenodes.com/v1/aware-fake-trim-testnet">>
Url_Sepolia == <<"https://sepolia.infura.io/v3/189303beb46d46d8a0327f90f441168d">>
Url_Sepolia_Persistent == <<"https://sepolia.infura.io/v3/0ab3a5daf9d64bbaaeac8ae7c09af18e">>
Registry_SkaleTitan == <<"0x0979446EB2A4a373eaA702336aC3c390B0139Fc5">>
Registry_Sepolia == <<"0xc0660d54f4655dC3B045D69ced4308f1709FD35e">>
Registry_Sepolia_Persistent == <<"0x93eEc6FffeE62c79d5ef5Be5b0679aE928E8C1B2">>

\* A configuration object: numbers are written as their decimal digits.
Config(name, chainId, rpcUrl, registry) ==
    [name |-> name, chainId |-> chainId, rpcUrl |-> rpcUrl, registry |-> registry]

\* The registry of the preset is read from process.env when the module loads.
SKALE_TITAN_CONFIG ==
    Config(Str_skale_titan, NumberToString(1020352220), Url_SkaleTitan,
           OrElse(env.ETH_REGISTRY_ADDRESS_SEPOLIA, Registry_SkaleTitan))

\* The sepolia entry of NETWORK_CONFIGS, which differs between the servers.
SEPOLIA_CONFIG ==
    IF server = "session"
    THEN Config(Str_sepolia, NumberToString(11155111), Url_Sepolia, Registry_Sepolia)
    ELSE Config(Str_sepolia, NumberToString(11155111), Url_Sepolia_Persistent,
                Registry_Sepolia_Persistent)

\* The own keys of the NETWORK_CONFIGS object
NetworkKeys == {Str_skale_titan, Str_skale, Str_sepolia}

Str_constructor == <<"c", "o", "n", "s", "t", "r", "u", "c", "t", "o", "r">>
Str_toString == <<"t", "o", "S", "t", "r", "i", "n", "g">>
Str_proto == <<"_", "_", "p", "r", "o", "t", "o", "_", "_">>
Str_Object == <<"O", "b", "j", "e", "c", "t">>

\* Property names the NETWORK_CONFIGS object inherits from Object.prototype
InheritedKeys == {Str_constructor, Str_toString, Str_proto}

\* What reading .name, .chainId, .rpcUrl and .registry gives on the value of
\* an inherited property: a function has its own name and nothing else,
\* Object.prototype has none of the four.
InheritedValue(k) ==
    IF k = Str_constructor
    THEN Config(Str_Object, Undefined, Undefined, Undefined)
    ELSE IF k = Str_toString
    THEN Config(Str_toString, Undefined, Undefined, Undefined)
    ELSE Config(Undefined, Undefined, Undefined, Undefined)

\* NETWORK_CONFIGS[k], for k an own key
NETWORK_CONFIGS(k) ==
    IF k = Str_sepolia THEN SEPOLIA_CONFIG ELSE SKALE_TITAN_CONFIG

\* NETWORK_CONFIGS[networkName] || SKALE_TITAN_CONFIG: a bracket lookup finds
\* own and inherited properties, and every inherited value is truthy.
getNetworkConfig(e) ==
    LET networkName == OrElse(e.ETH_NETWORK, Str_skale_titan)
        config == IF networkName \in NetworkKeys
                  THEN NETWORK_CONFIGS(networkName)
                  ELSE IF networkName \in InheritedKeys
                  THEN InheritedValue(networkName)
                  ELSE SKALE_TITAN_CONFIG
    IN  [name |-> config.name,
         rpcUrl |-> OrElse(e.ETH_PROVIDER_URL, config.rpcUrl),
         registry |-> OrElse(e.ETH_REGISTRY_ADDRESS, config.registry),
         chainId |-> config.chainId]

NoConfig == Config(Undefined, Undefined, Undefined, Undefined)

\* ------------------------------------------------ checkRegistryDeployment
Code_None == <<"0", "x">>
Code_Contract == <<"0", "x", "6", "0", "8", "0">>

\* What one provider.getCode call does: it throws, or it returns a string.
Answer(throws, code) == [throws |-> throws, code |-> code]

Answers == {Answer(TRUE, Undefined), Answer(FALSE, Code_None),
            Answer(FALSE, Code_Contract)}

\* The chain as one probe meets it: whether importing ethers or constructing
\* the provider throws, and what each getCode call in turn does.
Chain(providerThrows, answers) ==
    [providerThrows |-> providerThrows, answers |-> answers]

knownRegistries ==
    << <<"0xdca7ef03e98e0dc2b855be647c39abe984fcf21b">>,
       <<"0xd1d374dda6c5e1c0fd927de1c6c0e9cb7d7f12d3">>,
       <<"0x0000000000000000000000000000000000000000">> >>

\* code && code !== "0x"
HasCode(answer) ==
    ~answer.throws /\ Truthy(answer.code) /\ answer.code # Code_None

\* The result of a probe, and the addresses it queried, in order.
RegistryCheck(isDeployed, registry, queries) ==
    [isDeployed |-> isDeployed, registry |-> registry, queries |-> queries,
     thrown |-> FALSE]

NoRegistryCheck == RegistryCheck(FALSE, Undefined, << >>)

\* Mutant: every candidate is queried, whatever an earlier one answered.
CandidateLoop_QueryAll(networkConfig, chain, i, queries) ==
    LET found == {j \in 1..Len(knownRegistries) : HasCode(chain.answers[j + 1])}
        first == CHOOSE j \in found : \A k \in found : j <= k
    IN  IF found = {}
        THEN RegistryCheck(FALSE, networkConfig.registry, queries \o knownRegistries)
        ELSE RegistryCheck(TRUE, knownRegistries[first], queries \o knownRegistries)

RECURSIVE CandidateLoop_AbortOnThrow(_, _, _, _)
\* Mutant: the error of one candidate ends the loop in the outer catch.
CandidateLoop_AbortOnThrow(networkConfig, chain, i, queries) ==
    IF i > Len(knownRegistries)
    THEN RegistryCheck(FALSE, networkConfig.registry, queries)
    ELSE IF chain.answers[i + 1].throws
    THEN RegistryCheck(FALSE, networkConfig.registry, Append(queries, knownRegistries[i]))
    ELSE IF HasCode(chain.answers[i + 1])
    THEN RegistryCheck(TRUE, knownRegistries[i], Append(queries, knownRegistries[i]))
    ELSE CandidateLoop_AbortOnThrow(networkConfig, chain, i + 1,
                                    Append(queries, knownRegistries[i]))

RECURSIVE CandidateLoop(_, _, _, _)
\* for (const registry of knownRegistries): the i-th candidate is the
\* (i + 1)-th getCode call; a call that throws is caught inside the loop.
CandidateLoop(networkConfig, chain, i, queries) ==
    IF i > Len(knownRegistries)
    THEN RegistryCheck(FALSE, networkConfig.registry, queries)
    ELSE IF HasCode(chain.answers[i + 1])
    THEN RegistryCheck(TRUE, knownRegistries[i], Append(queries, knownRegistries[i]))
    ELSE CandidateLoop(networkConfig, chain, i + 1,
                       Append(queries, knownRegistries[i]))

\* Mutant: a chain-query error is thrown on to the caller.
checkRegistryDeployment_Throws(networkConfig, chain) ==
    IF chain.providerThrows \/ chain.answers[1].throws
    THEN [RegistryCheck(FALSE, networkConfig.registry, << >>) EXCEPT !.thrown = TRUE]
    ELSE RegistryCheck(HasCode(chain.answers[1]), networkConfig.registry,
                       <<networkConfig.registry>>)

\* Mutant: the first candidate is returned without a look at its code.
checkRegistryDeployment_FirstCandidate(networkConfig, chain) ==
    IF chain.providerThrows \/ chain.answers[1].throws
    THEN RegistryCheck(FALSE, networkConfig.registry, << >>)
    ELSE IF ~HasCode(chain.answers[1]) /\ networkConfig.name = Str_skale_titan
    THEN RegistryCheck(TRUE, knownRegistries[1], <<networkConfig.registry>>)
    ELSE RegistryCheck(HasCode(chain.answers[1]), networkConfig.registry,
                       <<networkConfig.registry>>)

\* checkRegistryDeployment(networkConfig): the outer catch returns
\* not-deployed with the configured address, so the call never rejects.
checkRegistryDeployment(networkConfig, chain) ==
    IF chain.providerThrows
    THEN RegistryCheck(FALSE, networkConfig.registry, << >>)
    ELSE IF chain.answers[1].throws
    THEN RegistryCheck(FALSE, networkConfig.registry, <<networkConfig.registry>>)
    ELSE IF ~HasCode(chain.answers[1]) /\ networkConfig.name = Str_skale_titan
    THEN CandidateLoop(networkConfig, chain, 1, <<networkConfig.registry>>)
    ELSE RegistryCheck(HasCode(chain.answers[1]), networkConfig.registry,
                       <<networkConfig.registry>>)

\* -------------------------------------------------------- initializeAgent
\* The did:ethr provider the agent is created with
EthrDIDProvider(network, rpcUrl, registry) ==
    [network |-> network, rpcUrl |-> rpcUrl, registry |-> registry]

NoProvider == EthrDIDProvider(Undefined, Undefined, Undefined)

\* One entry of the networks array given to ethrDidResolver
ResolverNetwork(name, rpcUrl, registry) ==
    [name |-> name, rpcUrl |-> rpcUrl, registry |-> registry]

\* ethrDidResolver({ networks: [...] }): the session-store server takes every
\* entry from NETWORK_CONFIGS; the persistent server takes the first two
\* from the configuration and the probe and writes the third as literals.
ResolverNetworks(networkConfig, actualRegistry) ==
    IF server = "session"
    THEN << ResolverNetwork(Str_skale_titan, NETWORK_CONFIGS(Str_skale_titan).rpcUrl,
                            NETWORK_CONFIGS(Str_skale_titan).registry),
            ResolverNetwork(Str_skale, NETWORK_CONFIGS(Str_skale_titan).rpcUrl,
                            NETWORK_CONFIGS(Str_skale_titan).registry),
            ResolverNetwork(Str_sepolia, NETWORK_CONFIGS(Str_sepolia).rpcUrl,
                            NETWORK_CONFIGS(Str_sepolia).registry) >>
    ELSE << ResolverNetwork(networkConfig.name, networkConfig.rpcUrl, actualRegistry),
            ResolverNetwork(Str_skale, networkConfig.rpcUrl, actualRegistry),
            ResolverNetwork(Str_sepolia, Url_Sepolia_Persistent, Registry_Sepolia) >>

\* The start-up: where initializeAgent is, what it has computed, the chain
\* it met, how many warnings it wrote, and what made the process exit.
Boot(pc, networkConfig, chain, registryCheck, provider, warnings, exit) ==
    [pc |-> pc,
     networkConfig |-> networkConfig,
     chain |-> chain,
     registryCheck |-> registryCheck,
     provider |-> provider,
     resolver |-> << >>,
     warnings |-> warnings,
     exit |-> exit]

NoChain == Chain(FALSE, << >>)

BootStart == Boot("start", NoConfig, NoChain, NoRegistryCheck, NoProvider, 0, "none")

\* Every chain a probe can meet: four getCode calls at most.
Chains ==
    {Chain(t, <<a1, a2, a3, a4>>) :
        t \in BOOLEAN, a1 \in Answers, a2 \in Answers, a3 \in Answers, a4 \in Answers}

\* dbConnection = await createConnection(...): a rejection reaches the catch
\* of initializeAgent, which ends the process.
CreateConnection ==
    /\ server \in {"session", "persistent"}
    /\ boot.pc = "start"
    /\ \/ boot' = [boot EXCEPT !.pc = "connected"]
       \/ boot' = [boot EXCEPT !.pc = "exited", !.exit = "createConnection"]
    /\ UNCHANGED <<server, env, now, dids, identifiers, keySeq, credentials, presentations, req>>

\* networkConfig = getNetworkConfig(); registryCheck = await
\* checkRegistryDeployment(networkConfig); the two warnings when the registry
\* is not deployed.
InitializeAgentProbeFrom(chains) ==
    /\ boot.pc = "connected"
    /\ \E chain \in chains :
        LET networkConfig == getNetworkConfig(env)
            registryCheck == checkRegistryDeployment(networkConfig, chain)
        IN  IF registryCheck.thrown
            THEN boot' = [boot EXCEPT !.pc = "exited",
                                      !.networkConfig = networkConfig,
                                      !.chain = chain,
                                      !.exit = "checkRegistryDeployment"]
            ELSE boot' = [boot EXCEPT !.pc = "probed",
                                      !.networkConfig = networkConfig,
                                      !.chain = chain,
                                      !.registryCheck = registryCheck,
                                      !.warnings = IF registryCheck.isDeployed
                                                   THEN 0 ELSE 2]
    /\ UNCHANGED <<server, env, now, dids, identifiers, keySeq, credentials, presentations, req>>

InitializeAgentProbe == InitializeAgentProbeFrom(Chains)

\* agent = createAgent({ plugins: [...] }): the provider takes the name and
\* the URL of the configuration and the registry the probe returned, and the
\* resolver takes the networks of ResolverNetworks.  An
\* exception of a plugin's constructor reaches the catch.
CreateAgent ==
    /\ boot.pc = "probed"
    /\ \/ boot' = [boot EXCEPT !.pc = "listening",
                              !.provider = EthrDIDProvider(boot.networkConfig.name,
                                                           boot.networkConfig.rpcUrl,
                                                           boot.registryCheck.registry),
                              !.resolver = ResolverNetworks(boot.networkConfig,
                                                            boot.registryCheck.registry)]
       \/ boot' = [boot EXCEPT !.pc = "exited", !.exit = "createAgent"]
    /\ UNCHANGED <<server, env, now, dids, identifiers, keySeq, credentials, presentations, req>>

\* The start-up that found the configured registry deployed.
Booted(e) ==
    LET networkConfig == getNetworkConfig(e)
        chain == Chain(FALSE, <<Answer(FALSE, Code_Contract)>>)
        registryCheck == checkRegistryDeployment(networkConfig, chain)
    IN  [Boot("listening", networkConfig, chain, registryCheck,
              EthrDIDProvider(networkConfig.name, networkConfig.rpcUrl,
                              registryCheck.registry),
              0, "none")
         EXCEPT !.resolver = ResolverNetworks(networkConfig, registryCheck.registry)]

\* app.listen runs after initializeAgent has returned.
Listening == boot.pc = "listening"

\* ------------------------------------------------------------ JS Map
\* A Map is the sequence of its entries in insertion order.
MapHas(m, k) == \E i \in 1..Len(m) : m[i].key = k

MapIndex(m, k) == CHOOSE i \in 1..Len(m) : m[i].key = k

MapGet(m, k) == m[MapIndex(m, k)].value

\* Map.prototype.set: an existing key keeps its place and takes the new value.
MapSet(m, k, v) ==
    IF MapHas(m, k)
    THEN [m EXCEPT ![MapIndex(m, k)] = [key |-> k, value |-> v]]
    ELSE Append(m, [key |-> k, value |-> v])

\* Mutant: the values are enumerated from the last entry to the first.
MapValues_Reversed(m) == [i \in 1..Len(m) |-> m[Len(m) + 1 - i].value]

\* Array.from(map.values()): a fresh iterator, from the first entry on.
MapValues(m) == [i \in 1..Len(m) |-> m[i].value]

\* ----------------------------------------------------------- records
\* An identifier as the handlers and the agent pass it around; fields a
\* producer does not set are Undefined, keys is the list of managed key ids.
Identifier(did, provider, walletAddress, network, alias, controllerKeyId, keys) ==
    [did |-> did,
     provider |-> provider,
     walletAddress |-> walletAddress,
     network |-> network,
     alias |-> alias,
     controllerKeyId |-> controllerKeyId,
     keys |-> keys]

NoIdentifier ==
    Identifier(Undefined, Undefined, Undefined, Undefined, Undefined, Undefined, << >>)

\* Mutant: every record is typed wallet-based.
Metadata_WalletType(identifier, type) ==
    [did |-> identifier.did,
     provider |-> identifier.provider,
     walletAddress |-> identifier.walletAddress,
     network |-> identifier.network,
     alias |-> identifier.alias,
     controllerKeyId |-> identifier.controllerKeyId,
     keys |-> identifier.keys,
     type |-> Str_wallet_based]

\* The metadata argument of registerDID: an identifier's fields plus type.
Metadata(identifier, type) ==
    [did |-> identifier.did,
     provider |-> identifier.provider,
     walletAddress |-> identifier.walletAddress,
     network |-> identifier.network,
     alias |-> identifier.alias,
     controllerKeyId |-> identifier.controllerKeyId,
     keys |-> identifier.keys,
     type |-> type]

\* A verification method of a DID document
VerificationMethod(id, type, controller, blockchainAccountId) ==
    [id |-> id,
     type |-> type,
     controller |-> controller,
     blockchainAccountId |-> blockchainAccountId]

\* A resolution result: { didDocumentMetadata, didResolutionMetadata,
\* didDocument }.  fallback is FALSE where the metadata has no such field.
Resolution(fallback, message, contentType, id, methods, authentication, assertionMethod) ==
    [didDocumentMetadata |-> [fallback |-> fallback, message |-> message],
     didResolutionMetadata |-> [contentType |-> contentType],
     didDocument |-> [id |-> id,
                      verificationMethod |-> methods,
                      authentication |-> authentication,
                      assertionMethod |-> assertionMethod]]

NoResolution ==
    Resolution(FALSE, Undefined, Undefined, Undefined, << >>, << >>, << >>)

\* A response: HTTP status and the JSON body's fields.
\* A verifiable credential as the agent returns it; proof names the signing key.
Credential(issuer, subject, proof) ==
    [issuer |-> issuer, subject |-> subject, proof |-> proof]

NoCredential == Credential(Undefined, Undefined, Undefined)

\* A verifiable presentation as the agent returns it
Presentation(holder, verifiableCredential, proof) ==
    [holder |-> holder, verifiableCredential |-> verifiableCredential, proof |-> proof]

NoPresentation == Presentation(Undefined, << >>, Undefined)

SignedResponse(status, success, error, credential, credentialId, presentation, presentationId) ==
    [status |-> status,
     success |-> success,
     identifier |-> NoIdentifier,
     type |-> Undefined,
     message |-> Undefined,
     error |-> error,
     supported_methods |-> FALSE,
     resolution |-> NoResolution,
     method |-> Undefined,
     did |-> Undefined,
     credential |-> credential,
     credentialId |-> credentialId,
     presentation |-> presentation,
     presentationId |-> presentationId,
     count |-> 0,
     identifiers |-> << >>,
     record |-> << >>,
     credentials |-> << >>,
     presentations |-> << >>,
     verification |-> << >>]

FullResponse(status, success, identifier, type, message, error, supported, resolution, method, did) ==
    [status |-> status,
     success |-> success,
     identifier |-> identifier,
     type |-> type,
     message |-> message,
     error |-> error,
     supported_methods |-> supported,
     resolution |-> resolution,
     method |-> method,
     did |-> did,
     credential |-> NoCredential,
     credentialId |-> Undefined,
     presentation |-> NoPresentation,
     presentationId |-> Undefined,
     count |-> 0,
     identifiers |-> << >>,
     record |-> << >>,
     credentials |-> << >>,
     presentations |-> << >>,
     verification |-> << >>]

Response(status, success, identifier, type, message, error, supported) ==
    FullResponse(status, success, identifier, type, message, error, supported,
                 NoResolution, Undefined, Undefined)

ResolveResponse(status, success, resolution, method, error, did) ==
    FullResponse(status, success, NoIdentifier, Undefined, Undefined, error, FALSE,
                 resolution, method, did)

NoResponse == Response(0, FALSE, NoIdentifier, Undefined, Undefined, Undefined, FALSE)

\* res.json({ success: true, count: list.length, <list> }) of the list routes
ListResponse(allDids, allCredentials, allPresentations) ==
    [Response(200, TRUE, NoIdentifier, Undefined, Undefined, Undefined, FALSE)
        EXCEPT !.count = Len(allDids) + Len(allCredentials) + Len(allPresentations),
               !.identifiers = allDids,
               !.credentials = allCredentials,
               !.presentations = allPresentations]

\* The response of GET /did/:did: the stored record, when there is one
RecordResponse(status, success, record, error) ==
    [Response(status, success, NoIdentifier, Undefined, Undefined, error, FALSE)
        EXCEPT !.record = record]

\* The response of the verification routes: the agent's result, when there is one
VerifyResponse(status, success, verification, method, error) ==
    [Response(status, success, NoIdentifier, Undefined, Undefined, error, FALSE)
        EXCEPT !.verification = verification, !.method = method]

\* req.body of POST /did/create
Body(provider, alias, walletAddress, network) ==
    [provider |-> provider,
     alias |-> alias,
     walletAddress |-> walletAddress,
     network |-> network]

NoBody == Body(Undefined, Undefined, Undefined, Undefined)

\* ------------------------------------------------------- DIDRegistry
\* { did, createdAt: new Date().toISOString(), ...metadata }: a did that the
\* metadata carries overrides the key's.
DIDRegistry_registerDID(m, did, metadata, t) ==
    MapSet(m, did,
           [did |-> IF metadata.did = Undefined THEN did ELSE metadata.did,
            createdAt |-> t,
            provider |-> metadata.provider,
            walletAddress |-> metadata.walletAddress,
            network |-> metadata.network,
            alias |-> metadata.alias,
            controllerKeyId |-> metadata.controllerKeyId,
            keys |-> metadata.keys,
            type |-> metadata.type])

DIDRegistry_getDID(m, did) == MapGet(m, did)

DIDRegistry_getAllDIDs(m) == MapValues(m)

\* Mutant: the registry is never consulted.
DIDRegistry_isDIDRegistered_Never(m, did) == FALSE

DIDRegistry_isDIDRegistered(m, did) == MapHas(m, did)

\* --------------------------------------------------------------- state
Requests == 1..MaxReq

\* ------------------------------------------------------------- inputs
WalletA == <<"0", "x">> \o Rep("a", 40)
\* WalletA with another letter case in its first hex digit
WalletB == <<"0", "x", "A">> \o Rep("a", 39)
WalletShort == <<"0", "x">> \o Rep("a", 39)
WalletLong == <<"0", "x">> \o Rep("a", 41)
WalletNonHex == <<"0", "x", "g">> \o Rep("a", 39)
WalletNoPrefix == <<"0", "a">> \o Rep("a", 40)

ValidWallets == {WalletA, WalletB}
MalformedWallets == {WalletShort, WalletLong, WalletNonHex, WalletNoPrefix}

AliasA == <<"a", "l", "i", "c", "e">>

\* The requests of the behaviours that follow the stores
CreateBodies ==
    {Body(Str_did_ethr, Undefined, WalletA, Undefined),
     Body(Str_did_ethr, AliasA, WalletA, Str_skale_titan),
     Body(Str_did_ethr, Undefined, WalletB, Undefined),
     Body(Str_did_ethr, Undefined, EmptyString, Undefined),
     Body(Undefined, Undefined, Undefined, Undefined),
     Body(Str_did_web, Undefined, Undefined, Undefined)}

\* The requests of the behaviours that follow validation and classification
InputBodies ==
    {Body(Str_did_ethr, Undefined, w, Undefined) :
        w \in {WalletA} \cup MalformedWallets \cup {EmptyString, Undefined}}
    \cup {Body(p, Undefined, w, Undefined) :
        p \in {Undefined, Str_did_key}, w \in {Undefined, EmptyString, WalletNonHex}}
    \cup {Body(Str_did_web, Undefined, w, Undefined) : w \in {Undefined, WalletA}}

\* A value of req.body.verifiableCredentials: whether Array.isArray holds of
\* it, and its items.
ArrayOf(items) == [isArray |-> TRUE, items |-> items]

NotAnArray == [isArray |-> FALSE, items |-> << >>]

\* req.body of the credential and presentation routes; credential and
\* presentation are the empty sequence when the field is absent.
VcBody(issuerDid, subjectDid, credentialSubject, credential, holderDid, verifiableCredentials, presentation) ==
    [issuerDid |-> issuerDid,
     subjectDid |-> subjectDid,
     credentialSubject |-> credentialSubject,
     credential |-> credential,
     holderDid |-> holderDid,
     verifiableCredentials |-> verifiableCredentials,
     presentation |-> presentation]

NoVcBody == VcBody(Undefined, Undefined, Undefined, << >>, Undefined, NotAnArray, << >>)

IdleRequest ==
    [pc |-> "idle",
     op |-> "none",
     body |-> NoBody,
     did |-> Undefined,
     branch |-> "none",
     createOptions |-> NoBody,
     agentCalls |-> << >>,
     identifier |-> NoIdentifier,
     resolution |-> NoResolution,
     credential |-> NoCredential,
     presentation |-> NoPresentation,
     verifiableCredentials |-> << >>,
     vcBody |-> NoVcBody,
     verification |-> << >>,
     error |-> Undefined,
     registered |-> Undefined,
     outcomes |-> << >>,
     stored |-> << >>,
     resp |-> NoResponse]

\* An entry of a request's record of its agent calls: method and DID argument.
Call(method, did) == <<method, did>>

\* Requests arrive in the order of their numbers.
MayStart(r) ==
    /\ Listening
    /\ req[r].pc = "idle"
    /\ r > 1 => req[r - 1].pc # "idle"

\* ------------------------------- POST /did/create, session-store server
\* const { provider = "did:key", alias, walletAddress, network } = req.body
ProviderOf(body) ==
    IF body.provider = Undefined THEN Str_did_key ELSE body.provider

\* Mutant: the provider alone selects the wallet-based branch.
CreateBranch_ProviderOnly(body) ==
    IF ProviderOf(body) = Str_did_ethr
    THEN "wallet-based"
    ELSE IF ProviderOf(body) = Str_did_key
    THEN "self-issued"
    ELSE "unsupported"

\* The if / else-if chain of the handler.
CreateBranch(body) ==
    IF ProviderOf(body) = Str_did_ethr /\ Truthy(body.walletAddress)
    THEN "wallet-based"
    ELSE IF ProviderOf(body) = Str_did_ethr /\ ~Truthy(body.walletAddress)
    THEN "generated-key"
    ELSE IF ProviderOf(body) = Str_did_key
    THEN "self-issued"
    ELSE "unsupported"

TargetNetwork(body, e) == OrElse(body.network, getNetworkConfig(e).name)

\* Mutant: the network segment is left out of the DID.
DidIdentifier_NoNetwork(targetNetwork, walletAddress) ==
    Str_did_ethr \o Colon \o walletAddress

\* `did:ethr:${targetNetwork}:${walletAddress}`
DidIdentifier(targetNetwork, walletAddress) ==
    Str_did_ethr \o Colon \o targetNetwork \o Colon \o walletAddress

WalletIdentifier(body, e) ==
    Identifier(DidIdentifier(TargetNetwork(body, e), body.walletAddress),
               Str_did_ethr, body.walletAddress, TargetNetwork(body, e),
               Undefined, Undefined, << >>)

\* The metadata the wallet-based branch registers.
WalletMetadata(body, e) ==
    [did |-> Undefined,
     provider |-> Str_did_ethr,
     walletAddress |-> body.walletAddress,
     network |-> TargetNetwork(body, e),
     alias |-> OrElse(body.alias, Str_wallet_dash \o SliceTo(body.walletAddress, 10)),
     controllerKeyId |-> Undefined,
     keys |-> << >>,
     type |-> Str_wallet_based]

\* The wallet-based branch: it has no await, so it runs in one step.
\* Result: the registry after it, the DID it registered if any, the response.
WalletBased(m, body, e, t) ==
    LET did == DidIdentifier(TargetNetwork(body, e), body.walletAddress)
    IN  IF ~IsWalletAddress(body.walletAddress)
        THEN [dids |-> m,
              registered |-> Undefined,
              resp |-> Response(400, FALSE, NoIdentifier, Undefined, Undefined,
                                Msg_InvalidWallet, FALSE)]
        ELSE IF DIDRegistry_isDIDRegistered(m, did)
        THEN [dids |-> m,
              registered |-> Undefined,
              resp |-> Response(200, TRUE, WalletIdentifier(body, e),
                                Str_wallet_based, Msg_AlreadyExists, Undefined, FALSE)]
        ELSE [dids |-> DIDRegistry_registerDID(m, did, WalletMetadata(body, e), t),
              registered |-> did,
              resp |-> Response(200, TRUE, WalletIdentifier(body, e),
                                Str_wallet_based, Msg_Created, Undefined, FALSE)]

\* The else branch evaluates error.message with no error in scope: the
\* ReferenceError is thrown while the 400 body is built and the catch answers.
Unsupported ==
    Response(500, FALSE, NoIdentifier, Undefined, Undefined, Msg_ReferenceError, FALSE)

\* createOptions of the generated-key and self-issued branches
Str_did_generated == <<"d", "i", "d", "-", "g", "e", "n", "e", "r", "a", "t", "e", "d", "-">>
Str_key_dash == <<"k", "e", "y", "-">>

CreateOptions(body, e, t) ==
    IF CreateBranch(body) = "generated-key"
    THEN Body(Str_did_ethr,
              OrElse(body.alias, Str_did_generated \o <<DigitChars[t + 1]>>),
              Undefined, getNetworkConfig(e).name)
    ELSE Body(Str_did_key,
              OrElse(body.alias, Str_key_dash \o <<DigitChars[t + 1]>>),
              Undefined, Undefined)

\* The handler from its start to its first await or to its response.
DidCreateFrom(r, bodies) ==
    /\ server = "session"
    /\ MayStart(r)
    /\ \E body \in bodies :
        LET branch == CreateBranch(body)
            start == [req[r] EXCEPT !.op = "did/create", !.body = body,
                                    !.branch = branch]
        IN  CASE branch = "wallet-based" ->
                    LET w == WalletBased(dids, body, env, now)
                    IN  /\ dids' = w.dids
                        /\ req' = [req EXCEPT ![r] =
                              [start EXCEPT !.pc = "done", !.resp = w.resp,
                                            !.registered = w.registered]]
              [] branch \in {"generated-key", "self-issued"} ->
                    /\ dids' = dids
                    /\ req' = [req EXCEPT ![r] =
                          [start EXCEPT !.pc = "await didManagerCreate",
                                        !.createOptions = CreateOptions(body, env, now),
                                        !.agentCalls = Append(@, Call("didManagerCreate", Undefined))]]
              [] OTHER ->
                    /\ dids' = dids
                    /\ req' = [req EXCEPT ![r] =
                          [start EXCEPT !.pc = "done", !.resp = Unsupported]]
    /\ UNCHANGED <<server, env, now, identifiers, keySeq, credentials, presentations, boot>>

DidCreate(r) == DidCreateFrom(r, CreateBodies)

DidCreateAnyInput(r) == DidCreateFrom(r, InputBodies)

\* ---------------------------------------------------------- the agent
\* The agent is the external Veramo agent.  Its calls either fulfil or
\* reject; which one is not decided by the servers.  What it stores is what
\* its interface documents: didManagerCreate generates a key pair and stores
\* an identifier whose DID is derived from the public key, didManagerImport
\* stores the identifier it is given under its DID, didManagerGet returns
\* the stored identifier of a DID and rejects when there is none.
PublicKeyHex(k) == <<"0", "x", "0", "2">> \o Rep(DigitChars[k + 1], 64)

GeneratedDid(options, k) ==
    IF options.provider = Str_did_ethr
    THEN Str_did_ethr \o Colon \o options.network \o Colon \o PublicKeyHex(k)
    ELSE Str_did_key \o Colon \o <<"z">> \o Rep(DigitChars[k + 1], 8)

GeneratedIdentifier(options, k) ==
    Identifier(GeneratedDid(options, k), options.provider, Undefined, Undefined,
               options.alias, PublicKeyHex(k), <<PublicKeyHex(k)>>)

\* providers: { "did:ethr": ..., "did:key": ... } of the DIDManager
AgentProviders == {Str_did_ethr, Str_did_key}

\* The agent holds a private key for the DID.
AgentHoldsKey(ids, did) == MapHas(ids, did) /\ MapGet(ids, did).keys # << >>

AgentDidManagerCreate(r) ==
    /\ req[r].pc = "await didManagerCreate"
    /\ \/ req[r].createOptions.provider \in AgentProviders /\
          LET identifier == GeneratedIdentifier(req[r].createOptions, keySeq)
          IN  /\ identifiers' = MapSet(identifiers, identifier.did, identifier)
              /\ keySeq' = keySeq + 1
              /\ req' = [req EXCEPT ![r].pc = "didManagerCreate fulfilled",
                                    ![r].outcomes = Append(@, "fulfilled"),
                                    ![r].identifier = identifier,
                                    ![r].stored = Append(@, identifier.did)]
       \/ /\ req' = [req EXCEPT ![r].pc = "didManagerCreate rejected",
                                ![r].outcomes = Append(@, "rejected"),
                                ![r].error = Msg_AgentFailure]
          /\ UNCHANGED <<identifiers, keySeq>>
    /\ UNCHANGED <<server, env, now, dids, credentials, presentations, boot>>

\* After await agent.didManagerCreate(createOptions): register and answer.
DidCreateResume(r) ==
    /\ server = "session"
    /\ req[r].op = "did/create"
    /\ req[r].pc = "didManagerCreate fulfilled"
    /\ LET identifier == req[r].identifier
           type == IF req[r].branch = "generated-key"
                   THEN Str_generated_key ELSE Str_self_issued
       IN  /\ dids' = DIDRegistry_registerDID(dids, identifier.did,
                                              Metadata(identifier, type), now)
           /\ req' = [req EXCEPT ![r].pc = "done",
                                 ![r].registered = identifier.did,
                                 ![r].createOptions = NoBody,
                                 ![r].identifier = NoIdentifier,
                                 ![r].resp = Response(200, TRUE, identifier, type,
                                                      Undefined, Undefined, FALSE)]
    /\ UNCHANGED <<server, env, now, identifiers, keySeq, credentials, presentations, boot>>

\* Mutant: the catch block registers a record for the failed request.
DidCreateCatch_Registers(r) ==
    /\ server = "session"
    /\ req[r].op = "did/create"
    /\ req[r].pc = "didManagerCreate rejected"
    /\ dids' = DIDRegistry_registerDID(dids, req[r].createOptions.provider,
                                       Metadata(NoIdentifier, Str_self_issued), now)
    /\ req' = [req EXCEPT ![r].pc = "done",
                          ![r].createOptions = NoBody,
                          ![r].error = Undefined,
                          ![r].resp = Response(500, FALSE, NoIdentifier, Undefined,
                                               Undefined, req[r].error, FALSE)]
    /\ UNCHANGED <<server, env, now, identifiers, keySeq, credentials, presentations, boot>>

\* catch (error): res.status(500).json({ success: false, error: error.message })
DidCreateCatch(r) ==
    /\ server = "session"
    /\ req[r].op = "did/create"
    /\ req[r].pc = "didManagerCreate rejected"
    /\ req' = [req EXCEPT ![r].pc = "done",
                          ![r].createOptions = NoBody,
                          ![r].error = Undefined,
                          ![r].resp = Response(500, FALSE, NoIdentifier, Undefined,
                                               Undefined, req[r].error, FALSE)]
    /\ UNCHANGED <<server, env, now, dids, identifiers, keySeq, credentials, presentations, boot>>

\* --------------------------------- POST /did/create, persistent server
\* The network of a wallet address DID: server.js holds two versions of the
\* handler, which differ in this expression only.
PersistentTargetNetwork(sv, body, e) ==
    IF sv = "persistent0"
    THEN OrElse(body.network, OrElse(e.ETH_NETWORK, Str_skale))
    ELSE OrElse(body.network, getNetworkConfig(e).name)

Str_did_dash == <<"d", "i", "d", "-">>
Str_ethr_dash == <<"e", "t", "h", "r", "-">>
Msg_PExists == <<"DID already exists for this wallet address">>
Msg_PCreated == <<"DID created for wallet address">>

\* The branch taken: provider === "did:ethr" && walletAddress, or else.
PersistentBranch(body) ==
    IF ProviderOf(body) = Str_did_ethr /\ Truthy(body.walletAddress)
    THEN "wallet" ELSE "regular"

\* createOptions as the handler builds it (options.address in walletAddress)
PersistentCreateOptions(sv, body, e, t) ==
    IF PersistentBranch(body) = "wallet"
    THEN Body(ProviderOf(body),
              OrElse(body.alias, Str_did_dash \o <<DigitChars[t + 1]>>),
              body.walletAddress, PersistentTargetNetwork(sv, body, e))
    ELSE Body(ProviderOf(body),
              OrElse(body.alias, Str_did_dash \o <<DigitChars[t + 1]>>),
              Undefined, Undefined)

\* The identifier handed to agent.didManagerImport: no keys.
ImportedIdentifier(sv, body, e) ==
    Identifier(DidIdentifier(PersistentTargetNetwork(sv, body, e), body.walletAddress),
               Str_did_ethr, Undefined, Undefined,
               OrElse(body.alias, Str_ethr_dash \o body.walletAddress),
               body.walletAddress, << >>)

\* The handler from its start to its first await or to its response.
PersistentDidCreateFrom(r, bodies) ==
    /\ server \in {"persistent", "persistent0"}
    /\ MayStart(r)
    /\ \E body \in bodies :
        LET branch == PersistentBranch(body)
            start == [req[r] EXCEPT !.op = "did/create", !.body = body,
                                    !.branch = branch,
                                    !.createOptions =
                                        PersistentCreateOptions(server, body, env, now)]
        IN  IF branch = "wallet"
            THEN IF ~IsWalletAddress(body.walletAddress)
                 THEN req' = [req EXCEPT ![r] =
                         [start EXCEPT !.pc = "done",
                                       !.createOptions = NoBody,
                                       !.resp = Response(400, FALSE, NoIdentifier,
                                                         Undefined, Undefined,
                                                         Msg_InvalidWallet, FALSE)]]
                 ELSE req' = [req EXCEPT ![r] =
                         [start EXCEPT !.pc = "await didManagerGet",
                                       !.agentCalls =
                                           Append(@, Call("didManagerGet",
                                               DidIdentifier(
                                                   PersistentTargetNetwork(server, body, env),
                                                   body.walletAddress)))]]
            ELSE req' = [req EXCEPT ![r] =
                    [start EXCEPT !.pc = "await didManagerCreate",
                                  !.agentCalls = Append(@, Call("didManagerCreate", Undefined))]]
    /\ UNCHANGED <<server, env, now, dids, identifiers, keySeq, credentials, presentations, boot>>

PersistentDidCreate(r) == PersistentDidCreateFrom(r, CreateBodies)

PersistentDidCreateAnyInput(r) == PersistentDidCreateFrom(r, InputBodies)

\* The DID the wallet branch of request r asks the agent about.
WalletDidOf(r) ==
    DidIdentifier(req[r].createOptions.network, req[r].body.walletAddress)

\* agent.didManagerGet({ did }): the stored identifier, or a rejection.
AgentDidManagerGet(r) ==
    /\ req[r].pc = "await didManagerGet"
    /\ \/ /\ MapHas(identifiers, WalletDidOf(r))
          /\ req' = [req EXCEPT ![r].pc = "didManagerGet fulfilled",
                                ![r].outcomes = Append(@, "fulfilled"),
                                ![r].identifier = MapGet(identifiers, WalletDidOf(r))]
       \/ req' = [req EXCEPT ![r].pc = "didManagerGet rejected",
                             ![r].outcomes = Append(@, "rejected"),
                             ![r].error = Msg_AgentFailure]
    /\ UNCHANGED <<server, env, now, dids, identifiers, keySeq, credentials, presentations, boot>>

\* After await agent.didManagerGet: answer with the existing identifier, or
\* swallow the error and go on to the import.
PersistentAfterGet(r) ==
    /\ \/ /\ req[r].pc = "didManagerGet fulfilled"
          /\ req' = [req EXCEPT ![r].pc = "done",
                                ![r].createOptions = NoBody,
                                ![r].identifier = NoIdentifier,
                                ![r].resp = Response(200, TRUE, req[r].identifier,
                                                     Undefined, Msg_PExists,
                                                     Undefined, FALSE)]
       \/ /\ req[r].pc = "didManagerGet rejected"
          /\ req' = [req EXCEPT ![r].pc = "await didManagerImport",
                                ![r].error = Undefined,
                                ![r].agentCalls = Append(@, Call("didManagerImport", WalletDidOf(r)))]
    /\ UNCHANGED <<server, env, now, dids, identifiers, keySeq, credentials, presentations, boot>>

\* agent.didManagerImport(identifier): stores it under its DID, or rejects.
AgentDidManagerImport(r) ==
    /\ req[r].pc = "await didManagerImport"
    /\ \/ LET identifier == ImportedIdentifier(server, req[r].body, env)
          IN  /\ identifiers' = MapSet(identifiers, identifier.did, identifier)
              /\ req' = [req EXCEPT ![r].pc = "didManagerImport fulfilled",
                                    ![r].outcomes = Append(@, "fulfilled"),
                                    ![r].identifier = identifier,
                                    ![r].stored = Append(@, identifier.did)]
       \/ /\ req' = [req EXCEPT ![r].pc = "didManagerImport rejected",
                                ![r].outcomes = Append(@, "rejected"),
                                ![r].error = Msg_AgentFailure]
          /\ UNCHANGED identifiers
    /\ UNCHANGED <<server, env, now, dids, keySeq, credentials, presentations, boot>>

\* After await agent.didManagerImport: answer, or fall back to creation.
PersistentAfterImport(r) ==
    /\ \/ /\ req[r].pc = "didManagerImport fulfilled"
          /\ req' = [req EXCEPT ![r].pc = "done",
                                ![r].createOptions = NoBody,
                                ![r].identifier = NoIdentifier,
                                ![r].resp = Response(200, TRUE, req[r].identifier,
                                                     Undefined, Msg_PCreated,
                                                     Undefined, FALSE)]
       \/ /\ req[r].pc = "didManagerImport rejected"
          /\ req' = [req EXCEPT ![r].pc = "await didManagerCreate",
                                ![r].error = Undefined,
                                ![r].agentCalls = Append(@, Call("didManagerCreate", Undefined))]
    /\ UNCHANGED <<server, env, now, dids, identifiers, keySeq, credentials, presentations, boot>>

\* After await agent.didManagerCreate: answer; a rejection reaches the catch.
PersistentAfterCreate(r) ==
    /\ server \in {"persistent", "persistent0"}
    /\ \/ /\ req[r].pc = "didManagerCreate fulfilled"
          /\ req' = [req EXCEPT ![r].pc = "done",
                                ![r].createOptions = NoBody,
                                ![r].identifier = NoIdentifier,
                                ![r].resp = Response(200, TRUE, req[r].identifier,
                                                     Undefined, Undefined,
                                                     Undefined, FALSE)]
       \/ /\ req[r].pc = "didManagerCreate rejected"
          /\ req' = [req EXCEPT ![r].pc = "done",
                                ![r].createOptions = NoBody,
                                ![r].error = Undefined,
                                ![r].resp = Response(500, FALSE, NoIdentifier,
                                                     Undefined, Undefined,
                                                     req[r].error, FALSE)]
    /\ UNCHANGED <<server, env, now, dids, identifiers, keySeq, credentials, presentations, boot>>

\* Time passes.
Tick ==
    /\ now < MaxTime
    /\ now' = now + 1
    /\ UNCHANGED <<server, env, dids, identifiers, keySeq, credentials, presentations, boot, req>>

\* ------------------------------------------------------------ VCStore
Str_cred_dash == <<"c", "r", "e", "d", "-">>

Str_pres_dash == <<"p", "r", "e", "s", "-">>

VCStore_saveCredential(m, id, credential, t) ==
    MapSet(m, id, [credential |-> credential, timestamp |-> t])

VCStore_savePresentation(m, id, presentation, t) ==
    MapSet(m, id, [presentation |-> presentation, timestamp |-> t])

VCStore_getAllCredentials(m) ==
    [i \in 1..Len(m) |-> MapValues(m)[i].credential]

VCStore_getAllPresentations(m) ==
    [i \in 1..Len(m) |-> MapValues(m)[i].presentation]

\* ------------------------------------------- POST /credential/create
Msg_MissingCredentialFields ==
    <<"Missing required fields: issuerDid, subjectDid, credentialSubject">>

Msg_MissingPresentationFields ==
    <<"Missing required fields: holderDid, verifiableCredentials (array)">>

SubjectDid == Str_did_ethr \o Colon \o Str_skale_titan \o Colon \o WalletB

Str_claims == <<"{", "}">>

\* The DIDs a client names as issuer or holder: those the server has listed.
KnownDids == {dids[i].key : i \in 1..Len(dids)}

\* Mutant: an issuer that DIDRegistry does not hold is rejected.
CredentialCreateFrom_ChecksRegistry(r, issuerDids, subjectDids, credentialSubjects) ==
    /\ server = "session"
    /\ MayStart(r)
    /\ \E issuerDid \in issuerDids,
          subjectDid \in subjectDids,
          credentialSubject \in credentialSubjects :
          IF \/ ~Truthy(issuerDid) \/ ~Truthy(subjectDid) \/ ~Truthy(credentialSubject)
             \/ ~MapHas(dids, issuerDid)
          THEN req' = [req EXCEPT ![r].pc = "done",
                                  ![r].op = "credential/create",
                                  ![r].did = issuerDid,
                                  ![r].vcBody = [NoVcBody EXCEPT
                                      !.issuerDid = issuerDid,
                                      !.subjectDid = subjectDid,
                                      !.credentialSubject = credentialSubject],
                                  ![r].resp = SignedResponse(400, FALSE,
                                        Msg_MissingCredentialFields, NoCredential,
                                        Undefined, NoPresentation, Undefined)]
          ELSE req' = [req EXCEPT ![r].pc = "await createVerifiableCredential",
                                  ![r].op = "credential/create",
                                  ![r].did = issuerDid,
                                  ![r].vcBody = [NoVcBody EXCEPT
                                      !.issuerDid = issuerDid,
                                      !.subjectDid = subjectDid,
                                      !.credentialSubject = credentialSubject],
                                  ![r].agentCalls =
                                      Append(@, Call("createVerifiableCredential", issuerDid))]
    /\ UNCHANGED <<server, env, now, dids, identifiers, keySeq, credentials, presentations, boot>>

\* The handler up to await agent.createVerifiableCredential
CredentialCreateFrom(r, issuerDids, subjectDids, credentialSubjects) ==
    /\ server = "session"
    /\ MayStart(r)
    /\ \E issuerDid \in issuerDids,
          subjectDid \in subjectDids,
          credentialSubject \in credentialSubjects :
          IF ~Truthy(issuerDid) \/ ~Truthy(subjectDid) \/ ~Truthy(credentialSubject)
          THEN req' = [req EXCEPT ![r].pc = "done",
                                  ![r].op = "credential/create",
                                  ![r].did = issuerDid,
                                  ![r].vcBody = [NoVcBody EXCEPT
                                      !.issuerDid = issuerDid,
                                      !.subjectDid = subjectDid,
                                      !.credentialSubject = credentialSubject],
                                  ![r].resp = SignedResponse(400, FALSE,
                                        Msg_MissingCredentialFields, NoCredential,
                                        Undefined, NoPresentation, Undefined)]
          ELSE req' = [req EXCEPT ![r].pc = "await createVerifiableCredential",
                                  ![r].op = "credential/create",
                                  ![r].did = issuerDid,
                                  ![r].vcBody = [NoVcBody EXCEPT
                                      !.issuerDid = issuerDid,
                                      !.subjectDid = subjectDid,
                                      !.credentialSubject = credentialSubject],
                                  ![r].agentCalls =
                                      Append(@, Call("createVerifiableCredential", issuerDid))]
    /\ UNCHANGED <<server, env, now, dids, identifiers, keySeq, credentials, presentations, boot>>

\* The subjects and the claims a client sends, absent or present
SubjectDids == {Undefined, SubjectDid}

CredentialSubjects == {Undefined, Str_claims}

CredentialCreate(r) ==
    CredentialCreateFrom(r, KnownDids \cup {Undefined}, SubjectDids, CredentialSubjects)

\* The agent signs with the key it holds for the issuer, and cannot sign for
\* an issuer whose key it does not hold.
AgentCreateVerifiableCredential(r) ==
    /\ req[r].pc = "await createVerifiableCredential"
    /\ \/ /\ AgentHoldsKey(identifiers, req[r].did)
          /\ req' = [req EXCEPT ![r].pc = "createVerifiableCredential fulfilled",
                                ![r].outcomes = Append(@, "fulfilled"),
                                ![r].credential =
                                    Credential(req[r].did, req[r].vcBody.subjectDid,
                                        MapGet(identifiers, req[r].did).controllerKeyId)]
       \/ req' = [req EXCEPT ![r].pc = "createVerifiableCredential rejected",
                             ![r].outcomes = Append(@, "rejected"),
                             ![r].error = Msg_AgentFailure]
    /\ UNCHANGED <<server, env, now, dids, identifiers, keySeq, credentials, presentations, boot>>

\* After the await: save under cred-<Date.now()> and answer, or the catch.
CredentialCreateAfter(r) ==
    /\ server = "session"
    /\ req[r].op = "credential/create"
    /\ \/ /\ req[r].pc = "createVerifiableCredential fulfilled"
          /\ LET credentialId == Str_cred_dash \o NumberToString(now)
             IN  /\ credentials' = VCStore_saveCredential(credentials, credentialId,
                                                          req[r].credential, now)
                 /\ req' = [req EXCEPT ![r].pc = "done",
                                       ![r].credential = NoCredential,
                                       ![r].stored = Append(@, credentialId),
                                       ![r].resp = SignedResponse(200, TRUE, Undefined,
                                             req[r].credential, credentialId,
                                             NoPresentation, Undefined)]
       \/ /\ req[r].pc = "createVerifiableCredential rejected"
          /\ req' = [req EXCEPT ![r].pc = "done",
                                ![r].error = Undefined,
                                ![r].resp = SignedResponse(500, FALSE, req[r].error,
                                      NoCredential, Undefined, NoPresentation, Undefined)]
          /\ UNCHANGED credentials
    /\ UNCHANGED <<server, env, now, dids, identifiers, keySeq, presentations, boot>>

\* ----------------------------------------- POST /presentation/create
\* The handler up to await agent.createVerifiablePresentation
PresentationCreateFrom(r, holderDids, credentialArrays) ==
    /\ server = "session"
    /\ MayStart(r)
    /\ \E holderDid \in holderDids,
          verifiableCredentials \in credentialArrays :
          IF ~Truthy(holderDid) \/ ~verifiableCredentials.isArray
          THEN req' = [req EXCEPT ![r].pc = "done",
                                  ![r].op = "presentation/create",
                                  ![r].did = holderDid,
                                  ![r].vcBody = [NoVcBody EXCEPT
                                      !.holderDid = holderDid,
                                      !.verifiableCredentials = verifiableCredentials],
                                  ![r].resp = SignedResponse(400, FALSE,
                                        Msg_MissingPresentationFields, NoCredential,
                                        Undefined, NoPresentation, Undefined)]
          ELSE req' = [req EXCEPT ![r].pc = "await createVerifiablePresentation",
                                  ![r].op = "presentation/create",
                                  ![r].did = holderDid,
                                  ![r].vcBody = [NoVcBody EXCEPT
                                      !.holderDid = holderDid,
                                      !.verifiableCredentials = verifiableCredentials],
                                  ![r].verifiableCredentials = verifiableCredentials.items,
                                  ![r].agentCalls =
                                      Append(@, Call("createVerifiablePresentation", holderDid))]
    /\ UNCHANGED <<server, env, now, dids, identifiers, keySeq, credentials, presentations, boot>>

PresentationCreate(r) ==
    PresentationCreateFrom(r, KnownDids \cup {Undefined},
        {NotAnArray, ArrayOf(VCStore_getAllCredentials(credentials))})

\* The agent signs with the key it holds for the holder, and cannot sign for
\* a holder whose key it does not hold.
AgentCreateVerifiablePresentation(r) ==
    /\ req[r].pc = "await createVerifiablePresentation"
    /\ \/ /\ AgentHoldsKey(identifiers, req[r].did)
          /\ req' = [req EXCEPT ![r].pc = "createVerifiablePresentation fulfilled",
                                ![r].outcomes = Append(@, "fulfilled"),
                                ![r].presentation =
                                    Presentation(req[r].did, req[r].verifiableCredentials,
                                        MapGet(identifiers, req[r].did).controllerKeyId)]
       \/ req' = [req EXCEPT ![r].pc = "createVerifiablePresentation rejected",
                             ![r].outcomes = Append(@, "rejected"),
                             ![r].error = Msg_AgentFailure]
    /\ UNCHANGED <<server, env, now, dids, identifiers, keySeq, credentials, presentations, boot>>

\* After the await: save under pres-<Date.now()> and answer, or the catch.
PresentationCreateAfter(r) ==
    /\ server = "session"
    /\ req[r].op = "presentation/create"
    /\ \/ /\ req[r].pc = "createVerifiablePresentation fulfilled"
          /\ LET presentationId == Str_pres_dash \o NumberToString(now)
             IN  /\ presentations' = VCStore_savePresentation(presentations,
                                          presentationId, req[r].presentation, now)
                 /\ req' = [req EXCEPT ![r].pc = "done",
                                       ![r].presentation = NoPresentation,
                                       ![r].verifiableCredentials = << >>,
                                       ![r].stored = Append(@, presentationId),
                                       ![r].resp = SignedResponse(200, TRUE, Undefined,
                                             NoCredential, Undefined,
                                             req[r].presentation, presentationId)]
       \/ /\ req[r].pc = "createVerifiablePresentation rejected"
          /\ req' = [req EXCEPT ![r].pc = "done",
                                ![r].error = Undefined,
                                ![r].verifiableCredentials = << >>,
                                ![r].resp = SignedResponse(500, FALSE, req[r].error,
                                      NoCredential, Undefined, NoPresentation, Undefined)]
          /\ UNCHANGED presentations
    /\ UNCHANGED <<server, env, now, dids, identifiers, keySeq, credentials, boot>>

\* ------------------------------------------------------ GET /did/list
\* The read-only routes answer without awaiting anything.
DidList(r) ==
    /\ server = "session"
    /\ Listening
    /\ req[r].pc \in {"idle", "done"}
    /\ req' = [req EXCEPT ![r] =
          [IdleRequest EXCEPT !.pc = "done", !.op = "did/list",
                              !.resp = ListResponse(DIDRegistry_getAllDIDs(dids),
                                                    << >>, << >>)]]
    /\ UNCHANGED <<server, env, now, dids, identifiers, keySeq, credentials, presentations, boot>>

\* ------------------------------------------------------ GET /did/:did
Msg_NotInSession == <<"DID not found in this session">>

\* The DIDs a client asks for: those listed, and one never created here.
LookupDids == KnownDids \cup {SubjectDid}

\* Map.prototype.get yields undefined exactly for a key the Map lacks.
DidGet(r) ==
    /\ server = "session"
    /\ Listening
    /\ req[r].pc \in {"idle", "done"}
    /\ \E did \in LookupDids :
        LET start == [IdleRequest EXCEPT !.pc = "done", !.op = "did/get", !.did = did]
        IN  IF ~MapHas(dids, did)
            THEN req' = [req EXCEPT ![r] =
                    [start EXCEPT !.resp = RecordResponse(404, FALSE, << >>,
                                                          Msg_NotInSession)]]
            ELSE req' = [req EXCEPT ![r] =
                    [start EXCEPT !.resp = RecordResponse(200, TRUE,
                                              <<DIDRegistry_getDID(dids, did)>>,
                                              Undefined)]]
    /\ UNCHANGED <<server, env, now, dids, identifiers, keySeq, credentials, presentations, boot>>

\* ----------------------------------------------- GET /credential/list
CredentialList(r) ==
    /\ server = "session"
    /\ Listening
    /\ req[r].pc \in {"idle", "done"}
    /\ req' = [req EXCEPT ![r] =
          [IdleRequest EXCEPT !.pc = "done", !.op = "credential/list",
                              !.resp = ListResponse(<< >>,
                                          VCStore_getAllCredentials(credentials),
                                          << >>)]]
    /\ UNCHANGED <<server, env, now, dids, identifiers, keySeq, credentials, presentations, boot>>

\* --------------------------------------------- GET /presentation/list
PresentationList(r) ==
    /\ server = "session"
    /\ Listening
    /\ req[r].pc \in {"idle", "done"}
    /\ req' = [req EXCEPT ![r] =
          [IdleRequest EXCEPT !.pc = "done", !.op = "presentation/list",
                              !.resp = ListResponse(<< >>, << >>,
                                          VCStore_getAllPresentations(presentations))]]
    /\ UNCHANGED <<server, env, now, dids, identifiers, keySeq, credentials, presentations, boot>>

\* ------------------------------------------- POST /credential/verify
Msg_MissingCredential == <<"Missing required field: credential">>

Msg_MissingPresentation == <<"Missing required field: presentation">>

Msg_EvmRevert == <<"EVM revert instruction">>

Msg_SkaleRegistryIssue ==
    <<"SKALE network registry contract issue - verification requires blockchain interaction">>

\* A credential that this server did not issue
ForeignCredential == Credential(SubjectDid, SubjectDid, WalletB)

\* The credentials a client sends: none, one the server issued, a foreign one.
VerifyCredentials ==
    {<< >>, <<ForeignCredential>>}
        \cup {<<VCStore_getAllCredentials(credentials)[i]>> : i \in 1..Len(credentials)}

\* The handler up to await agent.verifyCredential
CredentialVerify(r) ==
    /\ server = "session"
    /\ MayStart(r)
    /\ \E credential \in VerifyCredentials :
        LET start == [req[r] EXCEPT !.op = "credential/verify",
                                    !.vcBody = [NoVcBody EXCEPT !.credential = credential]]
        IN  IF credential = << >>
            THEN req' = [req EXCEPT ![r] =
                    [start EXCEPT !.pc = "done",
                                  !.resp = VerifyResponse(400, FALSE, << >>, Undefined,
                                                          Msg_MissingCredential)]]
            ELSE req' = [req EXCEPT ![r] =
                    [start EXCEPT !.pc = "await verifyCredential",
                                  !.agentCalls =
                                      Append(@, Call("verifyCredential", Undefined))]]
    /\ UNCHANGED <<server, env, now, dids, identifiers, keySeq, credentials, presentations, boot>>

\* What the agent's verification rejects with
VerifierErrors == {Msg_AgentFailure, Msg_EvmRevert}

\* agent.verifyCredential: a verification result, or a rejection.
AgentVerifyCredential(r) ==
    /\ req[r].pc = "await verifyCredential"
    /\ \/ \E verified \in BOOLEAN :
            req' = [req EXCEPT ![r].pc = "verifyCredential fulfilled",
                               ![r].outcomes = Append(@, "fulfilled"),
                               ![r].verification = <<[verified |-> verified]>>]
       \/ \E error \in VerifierErrors :
            req' = [req EXCEPT ![r].pc = "verifyCredential rejected",
                               ![r].outcomes = Append(@, "rejected"),
                               ![r].error = error]
    /\ UNCHANGED <<server, env, now, dids, identifiers, keySeq, credentials, presentations, boot>>

\* After the await: the result, or the catch with its rewritten message.
CredentialVerifyAfter(r) ==
    /\ server = "session"
    /\ req[r].op = "credential/verify"
    /\ \/ /\ req[r].pc = "verifyCredential fulfilled"
          /\ req' = [req EXCEPT ![r].pc = "done",
                                ![r].verification = << >>,
                                ![r].resp = VerifyResponse(200, TRUE, req[r].verification,
                                                           Undefined, Undefined)]
       \/ /\ req[r].pc = "verifyCredential rejected"
          /\ LET errorMessage == IF Includes(req[r].error, Msg_EvmRevert[1])
                                 THEN Msg_SkaleRegistryIssue
                                 ELSE req[r].error
             IN  req' = [req EXCEPT ![r].pc = "done",
                                    ![r].error = Undefined,
                                    ![r].resp = VerifyResponse(500, FALSE, << >>,
                                                               Undefined, errorMessage)]
    /\ UNCHANGED <<server, env, now, dids, identifiers, keySeq, credentials, presentations, boot>>

\* ----------------------------------------- POST /presentation/verify
\* A presentation that this server did not create
ForeignPresentation == Presentation(SubjectDid, << >>, WalletB)

VerifyPresentations ==
    {<< >>, <<ForeignPresentation>>}
        \cup {<<VCStore_getAllPresentations(presentations)[i]>> :
                 i \in 1..Len(presentations)}

\* The handler up to await agent.verifyPresentation
PresentationVerify(r) ==
    /\ server = "session"
    /\ MayStart(r)
    /\ \E presentation \in VerifyPresentations :
        LET start == [req[r] EXCEPT !.op = "presentation/verify",
                                    !.vcBody = [NoVcBody EXCEPT !.presentation = presentation]]
        IN  IF presentation = << >>
            THEN req' = [req EXCEPT ![r] =
                    [start EXCEPT !.pc = "done",
                                  !.resp = VerifyResponse(400, FALSE, << >>, Undefined,
                                                          Msg_MissingPresentation)]]
            ELSE req' = [req EXCEPT ![r] =
                    [start EXCEPT !.pc = "await verifyPresentation",
                                  !.agentCalls =
                                      Append(@, Call("verifyPresentation", Undefined))]]
    /\ UNCHANGED <<server, env, now, dids, identifiers, keySeq, credentials, presentations, boot>>

\* agent.verifyPresentation: a verification result, or a rejection.
AgentVerifyPresentation(r) ==
    /\ req[r].pc = "await verifyPresentation"
    /\ \/ \E verified \in BOOLEAN :
            req' = [req EXCEPT ![r].pc = "verifyPresentation fulfilled",
                               ![r].outcomes = Append(@, "fulfilled"),
                               ![r].verification = <<[verified |-> verified]>>]
       \/ \E error \in VerifierErrors :
            req' = [req EXCEPT ![r].pc = "verifyPresentation rejected",
                               ![r].outcomes = Append(@, "rejected"),
                               ![r].error = error]
    /\ UNCHANGED <<server, env, now, dids, identifiers, keySeq, credentials, presentations, boot>>

\* After the await: the result, or the catch.
PresentationVerifyAfter(r) ==
    /\ server = "session"
    /\ req[r].op = "presentation/verify"
    /\ \/ /\ req[r].pc = "verifyPresentation fulfilled"
          /\ req' = [req EXCEPT ![r].pc = "done",
                                ![r].verification = << >>,
                                ![r].resp = VerifyResponse(200, TRUE, req[r].verification,
                                                           Undefined, Undefined)]
       \/ /\ req[r].pc = "verifyPresentation rejected"
          /\ req' = [req EXCEPT ![r].pc = "done",
                                ![r].error = Undefined,
                                ![r].resp = VerifyResponse(500, FALSE, << >>,
                                                           Undefined, req[r].error)]
    /\ UNCHANGED <<server, env, now, dids, identifiers, keySeq, credentials, presentations, boot>>

\* ------------------------------ POST /credential/verify-skale, server.js
\* A credential as this handler inspects it: typeof, credentialSubject, the
\* number of parts between dots of a string, and what JSON.parse makes of the
\* decoded second part: nothing when it throws, else the payload.
SkaleCredential(type, credentialSubject, parts, payload) ==
    [type |-> type, credentialSubject |-> credentialSubject, parts |-> parts,
     payload |-> payload]

\* A decoded JWT payload with vc, iss, sub and iat present
JwtPayload(exp) == [vc |-> TRUE, iss |-> TRUE, sub |-> TRUE, iat |-> TRUE, exp |-> exp]

SkaleCredentials ==
    {<< >>,
     <<SkaleCredential("object", Str_claims, 0, << >>)>>,
     <<SkaleCredential("object", Undefined, 0, << >>)>>,
     <<SkaleCredential("string", Undefined, 1, << >>)>>,
     <<SkaleCredential("string", Undefined, 3, << >>)>>,
     <<SkaleCredential("string", Undefined, 3, <<JwtPayload(1)>>)>>}

Msg_BothFailed == <<"Both standard and fallback verification methods failed">>

Str_standard == <<"s", "t", "a", "n", "d", "a", "r", "d">>
Str_fallback_jwt == <<"f", "a", "l", "l", "b", "a", "c", "k", "_", "j", "w", "t">>
Str_fallback_object == <<"f", "a", "l", "l", "b", "a", "c", "k", "_", "o", "b", "j", "e", "c", "t">>

\* The handler up to await agent.verifyCredential
VerifySkale(r) ==
    /\ server = "persistent"
    /\ MayStart(r)
    /\ \E credential \in SkaleCredentials :
        LET start == [req[r] EXCEPT !.op = "credential/verify-skale",
                                    !.vcBody = [NoVcBody EXCEPT !.credential = credential]]
        IN  IF credential = << >>
            THEN req' = [req EXCEPT ![r] =
                    [start EXCEPT !.pc = "done",
                                  !.resp = VerifyResponse(400, FALSE, << >>, Undefined,
                                                          Msg_MissingCredential)]]
            ELSE req' = [req EXCEPT ![r] =
                    [start EXCEPT !.pc = "await verifyCredential",
                                  !.agentCalls =
                                      Append(@, Call("verifyCredential", Undefined))]]
    /\ UNCHANGED <<server, env, now, dids, identifiers, keySeq, credentials, presentations, boot>>

\* catch (registryError): the checks that replace the agent's verification;
\* payload.exp > Date.now() / 1000 with the clock in milliseconds.
SkaleFallback(credential, t) ==
    IF credential.type = "string" /\ credential.parts = 3
    THEN IF credential.payload = << >>
         THEN VerifyResponse(500, FALSE, << >>, Undefined, Msg_BothFailed)
         ELSE VerifyResponse(200, TRUE,
                  <<[verified |-> credential.payload[1].exp * 1000 > t]>>,
                  Str_fallback_jwt, Undefined)
    ELSE IF credential.type = "object" /\ Truthy(credential.credentialSubject)
         THEN VerifyResponse(200, TRUE, <<[verified |-> TRUE]>>,
                             Str_fallback_object, Undefined)
         ELSE VerifyResponse(500, FALSE, << >>, Undefined, Msg_BothFailed)

\* After the await: the agent's result, or the fallback checks.
VerifySkaleAfter(r) ==
    /\ server = "persistent"
    /\ req[r].op = "credential/verify-skale"
    /\ \/ /\ req[r].pc = "verifyCredential fulfilled"
          /\ req' = [req EXCEPT ![r].pc = "done",
                                ![r].verification = << >>,
                                ![r].resp = VerifyResponse(200, TRUE, req[r].verification,
                                                           Str_standard, Undefined)]
       \/ /\ req[r].pc = "verifyCredential rejected"
          /\ req' = [req EXCEPT ![r].pc = "done",
                                ![r].error = Undefined,
                                ![r].resp = SkaleFallback(req[r].vcBody.credential[1], now)]
    /\ UNCHANGED <<server, env, now, dids, identifiers, keySeq, credentials, presentations, boot>>

\* ------------------------------------------------ GET /did/:did/resolve
Str_eip155_titan ==
    <<"e", "i", "p", "1", "5", "5", ":",
      "1", "0", "2", "0", "3", "5", "2", "2", "2", "0", ":">>
Str_RecoveryMethod == <<"EcdsaSecp256k1RecoveryMethod2020">>
Str_blockchain_resolved == <<"blockchain-resolved">>
Str_fallback == <<"fallback">>
Msg_Fallback == <<"Registry call failed, using fallback DID document">>
Str_did_ld_json == <<"application/did+ld+json">>

\* The document the handler builds when the resolver failed.
FallbackResolution(did, address) ==
    Resolution(TRUE, Msg_Fallback, Str_did_ld_json, did,
               <<VerificationMethod(did \o Str_controller, Str_RecoveryMethod, did,
                                    Str_eip155_titan \o address)>>,
               <<did \o Str_controller>>,
               <<did \o Str_controller>>)

\* Mutant: the alias skale is not taken for a SKALE network.
ResolveRoute_NoAlias(did, e) ==
    IF StartsWith(did, Str_did_ethr \o Colon) /\ Len(Split(did)) >= 4
    THEN LET network == Split(did)[3]
         IN  IF network = Str_skale_titan
             THEN "inner"
             ELSE IF /\ network # getNetworkConfig(e).name
                     /\ network # Str_skale
                     /\ network # Str_skale_titan
                  THEN "unconfigured"
                  ELSE "outer"
    ELSE "outer"

\* Where the handler goes before it first awaits: "inner" is the resolveDid
\* call of the SKALE branch, "outer" the one at the end of the try block,
\* "unconfigured" the 400 answer.
ResolveRoute(did, e) ==
    IF StartsWith(did, Str_did_ethr \o Colon) /\ Len(Split(did)) >= 4
    THEN LET network == Split(did)[3]
         IN  IF network = Str_skale_titan \/ network = Str_skale
             THEN "inner"
             ELSE IF /\ network # getNetworkConfig(e).name
                     /\ network # Str_skale
                     /\ network # Str_skale_titan
                  THEN "unconfigured"
                  ELSE "outer"
    ELSE "outer"

Msg_NotConfigured(network, e) ==
    <<"Network '">> \o <<network>> \o <<"' is not configured. Available networks: ">>
        \o <<getNetworkConfig(e).name>>

\* Mutant: the catch block answers with a text of its own.
ResolveErrorMessage_Generic(sv, msg) ==
    IF Includes(msg, "CALL_EXCEPTION") \/ Includes(msg, "missing revert data")
    THEN <<"Registry contract error">>
    ELSE msg

\* The error text of the catch block, per server.
ResolveErrorMessage(sv, msg) ==
    IF Includes(msg, "CALL_EXCEPTION") \/ Includes(msg, "missing revert data")
    THEN IF sv = "session"
         THEN <<"Registry contract error: ">> \o msg
                \o <<". For decentralized DIDs, use did:ethr with a wallet address or did:key for self-issued DIDs.">>
         ELSE <<"Registry contract error: The ERC1056 registry may not have the expected interface or data for this address. Consider using a different registry or fallback resolution. Original error: ">>
                \o msg
    ELSE IF sv # "session" /\ Includes(msg, "could not decode result data")
    THEN <<"Registry contract error: The ERC1056 registry may not be deployed or properly configured on this network. Original error: ">>
                \o msg
    ELSE msg

\* The body's method field: the session-store server names how it resolved.
ResolveMethod(sv, m) == IF sv = "session" THEN m ELSE Undefined

ResolveDids ==
    {Str_did_ethr \o Colon \o n \o Colon \o a :
        n \in {Str_skale, Str_skale_titan}, a \in {WalletA, WalletNonHex, EmptyString}}
    \cup {Str_did_ethr \o Colon \o Str_skale_titan \o Colon \o WalletA \o Colon \o <<"x">>,
          Str_did_ethr \o Colon \o Str_sepolia \o Colon \o WalletA,
          Str_did_ethr \o Colon \o Str_mainnet \o Colon \o WalletA,
          Str_did_ethr \o Colon \o Str_skale,
          Str_did_ethr \o Colon \o WalletA,
          Str_did_key \o Colon \o <<"z", "6", "M", "k">>,
          Str_skale \o Colon \o Str_skale \o Colon \o Str_skale \o Colon \o WalletA,
          AliasA}

\* What agent.resolveDid rejects with.
ResolverErrors ==
    {<<"getaddrinfo ENOTFOUND">>,
     <<"call revert exception (", "CALL_EXCEPTION", ")">>,
     <<"missing revert data">>,
     <<"could not decode result data">>}

\* What agent.resolveDid fulfils with: a document for the DID, or a result
\* that reports notFound and carries no document.
ResolverResults(did) ==
    {Resolution(FALSE, Undefined, Str_did_ld_json, did,
                <<VerificationMethod(did \o Str_controller, Str_RecoveryMethod, did,
                                     Undefined)>>,
                <<did \o Str_controller>>, <<did \o Str_controller>>),
     Resolution(FALSE, Undefined, <<"notFound">>, Undefined, << >>, << >>, << >>)}

\* The handler from its start to its first await or to its response.
DidResolveFrom(r, resolveDids) ==
    /\ server \in {"session", "persistent"}
    /\ Listening
    /\ req[r].pc \in {"idle", "done"}
    /\ \E did \in resolveDids :
        LET route == ResolveRoute(did, env)
            start == [IdleRequest EXCEPT !.op = "did/resolve", !.did = did,
                                        !.branch = route]
        IN  IF route = "unconfigured"
            THEN req' = [req EXCEPT ![r] =
                    [start EXCEPT !.pc = "done",
                                  !.resp = ResolveResponse(400, FALSE, NoResolution,
                                              Undefined,
                                              Msg_NotConfigured(Split(did)[3], env),
                                              Undefined)]]
            ELSE req' = [req EXCEPT ![r] =
                    [start EXCEPT !.pc = "await resolveDid",
                                  !.agentCalls = Append(@, Call("resolveDid", did))]]
    /\ UNCHANGED <<server, env, now, dids, identifiers, keySeq, credentials, presentations, boot>>

DidResolve(r) == DidResolveFrom(r, ResolveDids)

\* agent.resolveDid({ didUrl: did }): a resolution result, or a rejection.
AgentResolveDid(r) ==
    /\ req[r].pc = "await resolveDid"
    /\ \/ \E result \in ResolverResults(req[r].did) :
            req' = [req EXCEPT ![r].pc = "resolveDid fulfilled",
                               ![r].outcomes = Append(@, "fulfilled"),
                               ![r].resolution = result]
       \/ \E msg \in ResolverErrors :
            req' = [req EXCEPT ![r].pc = "resolveDid rejected",
                               ![r].outcomes = Append(@, "rejected"),
                               ![r].error = msg]
    /\ UNCHANGED <<server, env, now, dids, identifiers, keySeq, credentials, presentations, boot>>

\* After await agent.resolveDid: the answer.
DidResolveAfter(r) ==
    /\ req[r].op = "did/resolve"
    /\ \/ /\ req[r].pc = "resolveDid fulfilled"
          /\ req' = [req EXCEPT ![r].pc = "done",
                                ![r].resolution = NoResolution,
                                ![r].resp = ResolveResponse(200, TRUE,
                                               req[r].resolution,
                                               ResolveMethod(server, Str_blockchain_resolved),
                                               Undefined, Undefined)]
       \/ /\ req[r].pc = "resolveDid rejected"
          /\ req[r].branch = "inner"
          /\ req' = [req EXCEPT ![r].pc = "done",
                                ![r].error = Undefined,
                                ![r].resp = ResolveResponse(200, TRUE,
                                               FallbackResolution(req[r].did,
                                                                  Split(req[r].did)[4]),
                                               ResolveMethod(server, Str_fallback),
                                               Undefined, Undefined)]
       \/ /\ req[r].pc = "resolveDid rejected"
          /\ req[r].branch = "outer"
          /\ req' = [req EXCEPT ![r].pc = "done",
                                ![r].error = Undefined,
                                ![r].resp = ResolveResponse(500, FALSE, NoResolution,
                                               Undefined,
                                               ResolveErrorMessage(server, req[r].error),
                                               req[r].did)]
    /\ UNCHANGED <<server, env, now, dids, identifiers, keySeq, credentials, presentations, boot>>

\* ----------------------------------------------------------- behaviours
StartState(servers, networks) ==
    /\ server \in servers
    /\ env \in {EnvOf(n, Undefined, Undefined) : n \in networks}
    /\ now = 0
    /\ dids = << >>
    /\ identifiers = << >>
    /\ keySeq = 0
    /\ credentials = << >>
    /\ presentations = << >>
    /\ boot = Booted(env)
    /\ req = [r \in Requests |-> IdleRequest]

AgentCreates == \E r \in Requests : AgentDidManagerCreate(r)

\* The session-store server under requests that create identities.
Init == StartState({"session"}, {Undefined, Str_sepolia})

Next ==
    \/ Tick
    \/ \E r \in Requests : DidCreate(r)
    \/ AgentCreates
    \/ \E r \in Requests : DidCreateResume(r)
    \/ \E r \in Requests : DidCreateCatch(r)

Spec == Init /\ [][Next]_vars

\* The persistent server, in both versions of its handler.
InitPersistent == StartState({"persistent", "persistent0"}, {Undefined})

NextPersistent ==
    \/ \E r \in Requests : PersistentDidCreate(r)
    \/ \E r \in Requests : AgentDidManagerGet(r)
    \/ \E r \in Requests : PersistentAfterGet(r)
    \/ \E r \in Requests : AgentDidManagerImport(r)
    \/ \E r \in Requests : PersistentAfterImport(r)
    \/ AgentCreates
    \/ \E r \in Requests : PersistentAfterCreate(r)

SpecPersistent == InitPersistent /\ [][NextPersistent]_vars

\* Both servers under well-formed and malformed creation requests.
InitInputs == StartState({"session", "persistent"}, {Undefined})

NextInputs ==
    \/ \E r \in Requests : DidCreateAnyInput(r)
    \/ \E r \in Requests : DidCreateResume(r)
    \/ \E r \in Requests : DidCreateCatch(r)
    \/ \E r \in Requests : PersistentDidCreateAnyInput(r)
    \/ \E r \in Requests : AgentDidManagerGet(r)
    \/ \E r \in Requests : PersistentAfterGet(r)
    \/ \E r \in Requests : AgentDidManagerImport(r)
    \/ \E r \in Requests : PersistentAfterImport(r)
    \/ AgentCreates
    \/ \E r \in Requests : PersistentAfterCreate(r)

SpecInputs == InitInputs /\ [][NextInputs]_vars

\* Both servers under resolution requests.  The handler reads no store and
\* writes none, so the requests are served one after another by one slot.
InitResolve == StartState({"session", "persistent"}, {Undefined, Str_sepolia})

NextResolve ==
    \/ DidResolve(1)
    \/ AgentResolveDid(1)
    \/ DidResolveAfter(1)

SpecResolve == InitResolve /\ [][NextResolve]_vars

\* The session-store server under requests that create identities and
\* requests that sign with them.
SigningBodies ==
    {Body(Str_did_ethr, Undefined, WalletA, Undefined),
     Body(Str_did_ethr, Undefined, Undefined, Undefined),
     Body(Undefined, Undefined, Undefined, Undefined)}

DidCreateForSigning(r) == DidCreateFrom(r, SigningBodies)

InitSigning == StartState({"session"}, {Undefined})

NextSigning ==
    \/ Tick
    \/ \E r \in Requests : DidCreateForSigning(r)
    \/ AgentCreates
    \/ \E r \in Requests : DidCreateResume(r)
    \/ \E r \in Requests : DidCreateCatch(r)
    \/ \E r \in Requests : CredentialCreate(r)
    \/ \E r \in Requests : AgentCreateVerifiableCredential(r)
    \/ \E r \in Requests : CredentialCreateAfter(r)
    \/ \E r \in Requests : PresentationCreate(r)
    \/ \E r \in Requests : AgentCreateVerifiablePresentation(r)
    \/ \E r \in Requests : PresentationCreateAfter(r)

SpecSigning == InitSigning /\ [][NextSigning]_vars

\* The start-up of either server, for every environment and every chain.
Str_Sepolia_Capital == <<"S", "e", "p", "o", "l", "i", "a">>
Url_Custom == <<"https://rpc.example.org">>
Registry_Custom == <<"0x1111111111111111111111111111111111111111">>
Registry_Custom_Sepolia == <<"0x2222222222222222222222222222222222222222">>

ConfigEnvs ==
    {EnvWith(n, u, g, x) :
        n \in {Undefined, EmptyString, Str_skale_titan, Str_skale, Str_sepolia,
               Str_Sepolia_Capital, Str_mainnet,
               Str_constructor, Str_toString, Str_proto},
        u \in {Undefined, EmptyString, Url_Custom},
        g \in {Undefined, EmptyString, Registry_Custom},
        x \in {Undefined, Registry_Custom_Sepolia}}

\* The process before initializeAgent() has run.
ProcessStart(servers, envs) ==
    /\ server \in servers
    /\ env \in envs
    /\ now = 0
    /\ dids = << >>
    /\ identifiers = << >>
    /\ keySeq = 0
    /\ credentials = << >>
    /\ presentations = << >>
    /\ boot = BootStart
    /\ req = [r \in Requests |-> IdleRequest]

InitProbe == ProcessStart({"session", "persistent"}, ConfigEnvs)

NextProbe ==
    \/ CreateConnection
    \/ InitializeAgentProbe
    \/ CreateAgent

SpecProbe == InitProbe /\ [][NextProbe]_vars

\* The persistent server started with ETH_NETWORK naming a network that is
\* no preset and with ETH_PROVIDER_URL set, under requests that create and
\* requests that resolve.
Str_custom_network ==
    <<"m", "y", "-", "c", "u", "s", "t", "o", "m", "-", "n", "e", "t", "w", "o", "r", "k">>

CustomNetworkBodies ==
    {Body(Str_did_ethr, Undefined, WalletA, Undefined),
     Body(Str_did_ethr, Undefined, WalletA, Str_sepolia)}

CustomNetworkDids ==
    {Str_did_ethr \o Colon \o n \o Colon \o WalletA :
        n \in {Str_mainnet, Str_custom_network, Str_skale_titan}}

DidResolveCustom(r) == DidResolveFrom(r, CustomNetworkDids)

PersistentDidCreateCustom(r) == PersistentDidCreateFrom(r, CustomNetworkBodies)

InitCustomNetwork ==
    /\ server = "persistent"
    /\ env \in {EnvOf(n, Url_Custom, Undefined) : n \in {Str_mainnet, Str_custom_network}}
    /\ now = 0
    /\ dids = << >>
    /\ identifiers = << >>
    /\ keySeq = 0
    /\ credentials = << >>
    /\ presentations = << >>
    /\ boot = Booted(env)
    /\ req = [r \in Requests |-> IdleRequest]

NextCustomNetwork ==
    \/ \E r \in Requests : PersistentDidCreateCustom(r)
    \/ \E r \in Requests : AgentDidManagerGet(r)
    \/ \E r \in Requests : PersistentAfterGet(r)
    \/ \E r \in Requests : AgentDidManagerImport(r)
    \/ \E r \in Requests : PersistentAfterImport(r)
    \/ AgentCreates
    \/ \E r \in Requests : PersistentAfterCreate(r)
    \/ DidResolveCustom(1)
    \/ AgentResolveDid(1)
    \/ DidResolveAfter(1)

SpecCustomNetwork == InitCustomNetwork /\ [][NextCustomNetwork]_vars

\* The session-store server from the start of the process: the start-up
\* under a chain of each kind, then requests that create identities and
\* issue credentials.
NoCodeAnswer == Answer(FALSE, Code_None)

CodeAnswer == Answer(FALSE, Code_Contract)

ThrowAnswer == Answer(TRUE, Undefined)

BootChains ==
    {Chain(TRUE, <<NoCodeAnswer, NoCodeAnswer, NoCodeAnswer, NoCodeAnswer>>),
     Chain(FALSE, <<ThrowAnswer, CodeAnswer, CodeAnswer, CodeAnswer>>),
     Chain(FALSE, <<CodeAnswer, NoCodeAnswer, NoCodeAnswer, NoCodeAnswer>>),
     Chain(FALSE, <<NoCodeAnswer, NoCodeAnswer, NoCodeAnswer, NoCodeAnswer>>),
     Chain(FALSE, <<NoCodeAnswer, ThrowAnswer, CodeAnswer, NoCodeAnswer>>),
     Chain(FALSE, <<NoCodeAnswer, ThrowAnswer, ThrowAnswer, ThrowAnswer>>)}

InitializeAgentProbeBoot == InitializeAgentProbeFrom(BootChains)

BootBodies ==
    {Body(Str_did_ethr, Undefined, WalletA, Undefined),
     Body(Undefined, Undefined, Undefined, Undefined)}

DidCreateAfterBoot(r) == DidCreateFrom(r, BootBodies)

InitBoot ==
    ProcessStart({"session"}, {EnvOf(n, Undefined, Undefined) : n \in {Undefined, Str_sepolia}})

NextBoot ==
    \/ CreateConnection
    \/ InitializeAgentProbeBoot
    \/ CreateAgent
    \/ \E r \in Requests : DidCreateAfterBoot(r)
    \/ AgentCreates
    \/ \E r \in Requests : DidCreateResume(r)
    \/ \E r \in Requests : DidCreateCatch(r)
    \/ \E r \in Requests : CredentialCreate(r)
    \/ \E r \in Requests : AgentCreateVerifiableCredential(r)
    \/ \E r \in Requests : CredentialCreateAfter(r)

SpecBoot == InitBoot /\ [][NextBoot]_vars

\* The session-store server after POST /did/create {} was answered at time
\* 0 with a self-issued identity, under requests that issue credentials and
\* presentations in its name and requests that verify them.
IssuerIdentifier == GeneratedIdentifier(CreateOptions(NoBody, EnvOf(Undefined, Undefined, Undefined), 0), 0)

IssuerReady ==
    /\ server = "session"
    /\ env = EnvOf(Undefined, Undefined, Undefined)
    /\ now = 0
    /\ dids = DIDRegistry_registerDID(<< >>, IssuerIdentifier.did,
                                      Metadata(IssuerIdentifier, Str_self_issued), 0)
    /\ identifiers = MapSet(<< >>, IssuerIdentifier.did, IssuerIdentifier)
    /\ keySeq = 1
    /\ credentials = << >>
    /\ presentations = << >>
    /\ boot = Booted(env)
    /\ req = [r \in Requests |-> IdleRequest]

InitIssuance == IssuerReady

NextIssuance ==
    \/ Tick
    \/ \E r \in Requests : CredentialCreate(r)
    \/ \E r \in Requests : AgentCreateVerifiableCredential(r)
    \/ \E r \in Requests : CredentialCreateAfter(r)
    \/ \E r \in Requests : PresentationCreate(r)
    \/ \E r \in Requests : AgentCreateVerifiablePresentation(r)
    \/ \E r \in Requests : PresentationCreateAfter(r)
    \/ \E r \in Requests : CredentialVerify(r)
    \/ \E r \in Requests : AgentVerifyCredential(r)
    \/ \E r \in Requests : CredentialVerifyAfter(r)
    \/ \E r \in Requests : PresentationVerify(r)
    \/ \E r \in Requests : AgentVerifyPresentation(r)
    \/ \E r \in Requests : PresentationVerifyAfter(r)

SpecIssuance == InitIssuance /\ [][NextIssuance]_vars

\* The session-store server after that identity was created, under requests
\* that register a wallet address DID, issue in the issuer's name, list the
\* stores and look identities up.
InitLists == IssuerReady

WalletBodies == {Body(Str_did_ethr, Undefined, WalletA, Undefined)}

DidCreateForWallet(r) == DidCreateFrom(r, WalletBodies)

\* Issuing requests that carry every required field and name the issuer
CompleteSubjectDids == {SubjectDid}

CompleteCredentialSubjects == {Str_claims}

CredentialCreateComplete(r) ==
    CredentialCreateFrom(r, {IssuerIdentifier.did}, CompleteSubjectDids,
                         CompleteCredentialSubjects)

PresentationCreateComplete(r) ==
    PresentationCreateFrom(r, {IssuerIdentifier.did},
        {ArrayOf(VCStore_getAllCredentials(credentials))})

NextLists ==
    \/ Tick
    \/ \E r \in Requests : DidCreateForWallet(r)
    \/ \E r \in Requests : CredentialCreateComplete(r)
    \/ \E r \in Requests : AgentCreateVerifiableCredential(r)
    \/ \E r \in Requests : CredentialCreateAfter(r)
    \/ \E r \in Requests : PresentationCreateComplete(r)
    \/ \E r \in Requests : AgentCreateVerifiablePresentation(r)
    \/ \E r \in Requests : PresentationCreateAfter(r)
    \/ \E r \in Requests : DidList(r)
    \/ \E r \in Requests : DidGet(r)
    \/ \E r \in Requests : CredentialList(r)
    \/ \E r \in Requests : PresentationList(r)

SpecLists == InitLists /\ [][NextLists]_vars

\* The session-store server with its issuer, under requests to every route
\* that reads or writes DIDRegistry or VCStore; issuing requests name the
\* issuer or a DID that was never registered.
InitKeyspaces == IssuerReady

UnregisteredDid == Str_did_ethr \o Colon \o Str_skale_titan \o Colon \o WalletA

KeyspaceIssuerDids == {IssuerIdentifier.did, UnregisteredDid}

KeyspaceResolveDids == {SubjectDid}

CredentialCreateAnyIssuer(r) ==
    CredentialCreateFrom(r, KeyspaceIssuerDids, CompleteSubjectDids,
                         CompleteCredentialSubjects)

DidResolveSubject(r) == DidResolveFrom(r, KeyspaceResolveDids)

NextKeyspaces ==
    \/ Tick
    \/ \E r \in Requests : DidCreateForWallet(r)
    \/ \E r \in Requests : CredentialCreateAnyIssuer(r)
    \/ \E r \in Requests : AgentCreateVerifiableCredential(r)
    \/ \E r \in Requests : CredentialCreateAfter(r)
    \/ \E r \in Requests : PresentationCreateComplete(r)
    \/ \E r \in Requests : AgentCreateVerifiablePresentation(r)
    \/ \E r \in Requests : PresentationCreateAfter(r)
    \/ \E r \in Requests : CredentialVerify(r)
    \/ \E r \in Requests : AgentVerifyCredential(r)
    \/ \E r \in Requests : CredentialVerifyAfter(r)
    \/ \E r \in Requests : PresentationVerify(r)
    \/ \E r \in Requests : AgentVerifyPresentation(r)
    \/ \E r \in Requests : PresentationVerifyAfter(r)
    \/ \E r \in Requests : DidList(r)
    \/ \E r \in Requests : DidGet(r)
    \/ \E r \in Requests : CredentialList(r)
    \/ \E r \in Requests : PresentationList(r)
    \/ \E r \in Requests : DidResolveSubject(r)
    \/ \E r \in Requests : AgentResolveDid(r)
    \/ \E r \in Requests : DidResolveAfter(r)

SpecKeyspaces == InitKeyspaces /\ [][NextKeyspaces]_vars

\* The session-store server under requests that link a wallet, with every
\* spelling of the wallet and of the network, and requests that resolve the
\* DIDs these requests returned.
InitRoundTrip == StartState({"session"}, {Undefined, Str_sepolia})

RoundTripNetworks == {Undefined, Str_skale, Str_skale_titan, Str_sepolia, Str_mainnet}

RoundTripBodies ==
    {Body(Str_did_ethr, Undefined, w, n) : w \in ValidWallets, n \in RoundTripNetworks}

DidCreateRoundTrip(r) == DidCreateFrom(r, RoundTripBodies)

DidResolveCreated(r) == DidResolveFrom(r, KnownDids)

NextRoundTrip ==
    \/ \E r \in Requests : DidCreateRoundTrip(r)
    \/ \E r \in Requests : DidResolveCreated(r)
    \/ \E r \in Requests : AgentResolveDid(r)
    \/ \E r \in Requests : DidResolveAfter(r)

SpecRoundTrip == InitRoundTrip /\ [][NextRoundTrip]_vars

\* The second version of server.js under requests that create identities
\* and requests that verify credentials.
InitFailures == StartState({"persistent"}, {Undefined})

NextFailures ==
    \/ \E r \in Requests : PersistentDidCreate(r)
    \/ \E r \in Requests : AgentDidManagerGet(r)
    \/ \E r \in Requests : PersistentAfterGet(r)
    \/ \E r \in Requests : AgentDidManagerImport(r)
    \/ \E r \in Requests : PersistentAfterImport(r)
    \/ AgentCreates
    \/ \E r \in Requests : PersistentAfterCreate(r)
    \/ \E r \in Requests : VerifySkale(r)
    \/ \E r \in Requests : AgentVerifyCredential(r)
    \/ \E r \in Requests : VerifySkaleAfter(r)

SpecFailures == InitFailures /\ [][NextFailures]_vars

\* ======================================================== the claims
\* Requests that have entered the /did/create handler.
CreateRequests == {r \in Requests : req[r].op = "did/create"}

\* Requests of the session-store server's wallet-based branch whose address
\* passed the shape check.
WalletRequests ==
    {r \in CreateRequests :
        /\ ProviderOf(req[r].body) = Str_did_ethr
        /\ IsWalletAddress(req[r].body.walletAddress)}

\* The registry key of a wallet-linked request: its (walletAddress,
\* effective network) pair.
PairDid(r) ==
    Str_did_ethr \o Colon \o OrElse(req[r].body.network, getNetworkConfig(env).name)
        \o Colon \o req[r].body.walletAddress

\* ------------------------------------------------------------------ C1
\* C1: a wallet-linked creation request for a (walletAddress, effective
\* network) pair that is already in DIDRegistry answers success with the DID
\* and identifier that the first call returned, leaves DIDRegistry as it is
\* (no entry added, alias and createdAt of the entry untouched, whatever alias
\* the request carries) and calls the agent not at all.
C1_RepeatedWalletCreateIsIdempotent ==
    [][\A r \in Requests :
          LET body == req'[r].body
              did == DidIdentifier(OrElse(body.network, getNetworkConfig(env).name),
                                   body.walletAddress)
          IN  ( /\ server = "session"
                /\ req[r].pc = "idle"
                /\ req'[r].op = "did/create"
                /\ body.provider = Str_did_ethr
                /\ IsWalletAddress(body.walletAddress)
                /\ MapHas(dids, did) )
              => /\ req'[r].pc = "done"
                 /\ req'[r].resp.status = 200
                 /\ req'[r].resp.success
                 /\ req'[r].resp.identifier.did = did
                 /\ \E q \in Requests :
                        /\ req[q].registered = did
                        /\ req'[r].resp.identifier = req[q].resp.identifier
                 /\ dids' = dids
                 /\ req'[r].agentCalls = << >>
                 /\ identifiers' = identifiers
                 /\ keySeq' = keySeq]_vars

\* Witness of C1: the pair was registered by one request and asked for again,
\* later and under another alias, and the entry still has the first alias and
\* creation time.
C1_Witness ==
    \E q, r \in WalletRequests :
        /\ q # r
        /\ req[q].pc = "done" /\ req[r].pc = "done"
        /\ PairDid(q) = PairDid(r)
        /\ req[q].registered = PairDid(q)
        /\ req[r].registered = Undefined
        /\ req[r].resp.success
        /\ req[q].body.alias # req[r].body.alias
        /\ MapHas(dids, PairDid(q))
        /\ MapGet(dids, PairDid(q)).createdAt < now
        /\ Len(dids) = 1

\* ------------------------------------------------------------------ C2
\* C2: whatever the number and the interleaving of wallet-linked creation
\* requests for one (walletAddress, network) pair, DIDRegistry.registerDID is
\* executed at most once for its DID, DIDRegistry holds exactly one entry for
\* it once a request has answered, and every request answers success with
\* that DID.
C2_ConcurrentWalletCreatesConverge ==
    \A r \in WalletRequests :
        (server = "session" /\ req[r].pc = "done")
        => /\ Cardinality({q \in Requests : req[q].registered = PairDid(r)}) = 1
           /\ Cardinality({i \in 1..Len(dids) : dids[i].key = PairDid(r)}) = 1
           /\ req[r].resp.success
           /\ req[r].resp.identifier.did = PairDid(r)

\* Witness of C2: every request of the behaviour asked for the same pair, all
\* have answered, and one entry is stored.
C2_Witness ==
    /\ \A r \in Requests : r \in WalletRequests /\ req[r].pc = "done"
    /\ \A q, r \in Requests : PairDid(q) = PairDid(r)
    /\ Len(dids) = 1

\* ------------------------------------------------------------------ C3
\* Requests of the persistent server's wallet branch whose address passed
\* the shape check, and the DID of their (walletAddress, network) pair.
PersistentWalletRequests ==
    {r \in CreateRequests :
        /\ server \in {"persistent", "persistent0"}
        /\ ProviderOf(req[r].body) = Str_did_ethr
        /\ IsWalletAddress(req[r].body.walletAddress)}

PersistentPairDid(r) ==
    Str_did_ethr \o Colon \o PersistentTargetNetwork(server, req[r].body, env)
        \o Colon \o req[r].body.walletAddress

\* C3: on the persistent server, whatever the number and interleaving of the
\* wallet-linked creation requests for one (walletAddress, network) pair, at
\* most one identifier is ever imported or created for the pair.
C3_OneIdentifierPerWalletPair ==
    \A r \in PersistentWalletRequests :
        Cardinality({q \in PersistentWalletRequests :
                        /\ PersistentPairDid(q) = PersistentPairDid(r)
                        /\ req[q].stored # << >>}) <= 1

\* ------------------------------------------------------------------ C4
\* The shape the claims require of a wallet address: the characters 0x and
\* then exactly 40 hexadecimal digits.
ZeroXFortyHex(s) ==
    /\ Len(s) = 2 + 40
    /\ SubSeq(s, 1, 2) = <<"0", "x">>
    /\ \A i \in 1..40 : s[2 + i] \in HexChars

C5_ShapeCheckForEveryProvider ==
    \A r \in CreateRequests :
        ( /\ server = "session"
          /\ req[r].body.walletAddress # Undefined
          /\ req[r].body.walletAddress # EmptyString
          /\ ~ZeroXFortyHex(req[r].body.walletAddress) )
        => /\ req[r].agentCalls = << >>
           /\ req[r].registered = Undefined
           /\ req[r].pc = "done" => (req[r].resp.status = 400 /\ ~req[r].resp.success)

\* ------------------------------------------------------------------ C6
\* C6: on the session-store server a creation request whose provider is
\* neither did:ethr nor did:key is answered 400, success = false, with the
\* list of the supported variants, no agent call and no record written.
C6_UnsupportedProviderIsClientError ==
    \A r \in CreateRequests :
        ( /\ server = "session"
          /\ req[r].pc = "done"
          /\ req[r].body.provider \notin {Undefined, Str_did_ethr, Str_did_key} )
        => /\ req[r].resp.status = 400
           /\ ~req[r].resp.success
           /\ req[r].resp.supported_methods
           /\ req[r].agentCalls = << >>
           /\ req[r].registered = Undefined

C8_WalletDidWithoutServerKey ==
    \A r \in PersistentWalletRequests :
        (req[r].pc = "done" /\ req[r].resp.success)
        => /\ req[r].resp.identifier.did = PersistentPairDid(r)
           /\ req[r].resp.identifier.keys = << >>
           /\ \A i \in 1..Len(req[r].stored) :
                  ~AgentHoldsKey(identifiers, req[r].stored[i])

\* ------------------------------------------------------------------ C9
\* The variants as the claim words them.
WalletPresent(body) ==
    body.walletAddress # Undefined /\ body.walletAddress # EmptyString

IsWalletLinked(body) == body.provider = Str_did_ethr /\ WalletPresent(body)

IsServiceManaged(body) == body.provider = Str_did_ethr /\ ~WalletPresent(body)

IsSelfIssued(body) == body.provider = Str_did_key \/ body.provider = Undefined

\* C9: on the session-store server the branch a creation request runs is
\* wallet-based iff provider is did:ethr and walletAddress is non-empty,
\* generated-key iff provider is did:ethr and walletAddress is absent or
\* empty, self-issued iff provider is did:key or omitted, unsupported
\* otherwise; and the record a request stores has the type of its branch.
C9_ClassificationByProviderAndWallet ==
    \A r \in CreateRequests :
        server = "session" =>
        LET body == req[r].body
        IN  /\ req[r].branch = "wallet-based" <=> IsWalletLinked(body)
            /\ req[r].branch = "generated-key" <=> IsServiceManaged(body)
            /\ req[r].branch = "self-issued" <=> IsSelfIssued(body)
            /\ req[r].branch = "unsupported"
                  <=> ~(IsWalletLinked(body) \/ IsServiceManaged(body)
                          \/ IsSelfIssued(body))
            /\ req[r].registered # Undefined
                  => /\ MapHas(dids, req[r].registered)
                     /\ MapGet(dids, req[r].registered).type =
                           ( IF IsWalletLinked(body) THEN Str_wallet_based
                             ELSE IF IsServiceManaged(body) THEN Str_generated_key
                             ELSE Str_self_issued )

\* Witness of C9: a request with provider did:ethr and an empty walletAddress
\* has stored a generated-key record, and a request with provider did:key and
\* a walletAddress has stored a self-issued record.
C9_Witness ==
    \E q, r \in CreateRequests :
        /\ server = "session"
        /\ req[q].body.provider = Str_did_ethr
        /\ req[q].body.walletAddress = EmptyString
        /\ req[q].registered # Undefined
        /\ MapGet(dids, req[q].registered).type = Str_generated_key
        /\ req[r].body.provider = Str_did_key
        /\ req[r].body.walletAddress = WalletNonHex
        /\ req[r].registered # Undefined
        /\ MapGet(dids, req[r].registered).type = Str_self_issued

\* ----------------------------------------------------------------- C10
\* A DID of the form did:ethr:<skale or skale-titan>:<address>
IsSkaleDid(did) ==
    \E n \in {Str_skale, Str_skale_titan} :
        StartsWith(did, Str_did_ethr \o Colon \o n \o Colon)

WellFormedDid(did) ==
    /\ Len(Split(did)) = 4
    /\ Split(did)[1] = Str_did
    /\ ZeroXFortyHex(Split(did)[4])

\* C11: the resolve endpoint never answers a request for a DID that is not
\* of that shape with a fallback document; when the resolver rejected, the
\* answer for such a DID is an error.
C11_NoFallbackForMalformedDid ==
    \A r \in Requests :
        ( /\ req[r].op = "did/resolve"
          /\ req[r].pc = "done"
          /\ ~WellFormedDid(req[r].did) )
        => /\ ~req[r].resp.resolution.didDocumentMetadata.fallback
           /\ req[r].outcomes = <<"rejected">> => ~req[r].resp.success

\* ----------------------------------------------------------------- C12
\* The message occurs in the text, whole and unchanged.
ContainsVerbatim(text, msg) ==
    \E i \in 1..Len(text) :
        /\ i + Len(msg) - 1 <= Len(text)
        /\ SubSeq(text, i, i + Len(msg) - 1) = msg

\* A DID the fallback applies to, as the claim words it: a did:ethr DID of at
\* least four colon-separated segments whose network is skale or skale-titan.
FallbackEligible(did) ==
    /\ Len(Split(did)) >= 4
    /\ Split(did)[1] = Str_did
    /\ Split(did)[2] = Str_ethr
    /\ Split(did)[3] \in {Str_skale, Str_skale_titan}

\* C12: in every step that answers a resolve request after the resolver
\* rejected, for a DID the fallback does not apply to, the answer has
\* success = false, carries no document, and its error text contains the
\* resolver's message verbatim.
C12_ResolverMessagePreserved ==
    [][\A r \in Requests :
          ( /\ req[r].op = "did/resolve"
            /\ req[r].pc = "resolveDid rejected"
            /\ ~FallbackEligible(req[r].did)
            /\ req'[r].pc = "done" )
          => /\ ~req'[r].resp.success
             /\ req'[r].resp.status = 500
             /\ req'[r].resp.resolution = NoResolution
             /\ ContainsVerbatim(req'[r].resp.error, req[r].error)]_vars

\* Witness of C12: a did:key request answered with an error text that wraps
\* the resolver's message in a longer one.
C12_Witness ==
    \E r \in Requests :
        /\ req[r].op = "did/resolve"
        /\ req[r].pc = "done"
        /\ req[r].did = Str_did_key \o Colon \o <<"z", "6", "M", "k">>
        /\ req[r].outcomes = <<"rejected">>
        /\ ~req[r].resp.success
        /\ Len(req[r].resp.error) > 1
        /\ ContainsVerbatim(req[r].resp.error, <<"missing revert data">>)

\* ----------------------------------------------------------------- C13
\* The preset the claim selects: the one whose key equals ETH_NETWORK, and
\* the SKALE Titan preset when ETH_NETWORK is unset or is no key.
SelectedPreset(e) ==
    IF e.ETH_NETWORK = Str_sepolia
    THEN SEPOLIA_CONFIG
    ELSE SKALE_TITAN_CONFIG

\* C13: the configuration that getNetworkConfig returns has the name and the
\* chainId of the selected preset, the rpcUrl of ETH_PROVIDER_URL when that is
\* non-empty and of the preset otherwise, and the registry of
\* ETH_REGISTRY_ADDRESS when that is non-empty and of the preset otherwise.
C13_ConfigIsPresetWithOverrides ==
    boot.pc \in {"probed", "listening"} =>
        LET preset == SelectedPreset(env)
            config == boot.networkConfig
        IN  /\ config.name = preset.name
            /\ config.chainId = preset.chainId
            /\ config.rpcUrl =
                  ( IF env.ETH_PROVIDER_URL \notin {Undefined, EmptyString}
                    THEN env.ETH_PROVIDER_URL ELSE preset.rpcUrl )
            /\ config.registry =
                  ( IF env.ETH_REGISTRY_ADDRESS \notin {Undefined, EmptyString}
                    THEN env.ETH_REGISTRY_ADDRESS ELSE preset.registry )

\* ----------------------------------------------------------------- C14
\* C14: with ETH_NETWORK naming a network that is no built-in preset and
\* ETH_PROVIDER_URL set, the service works under that name: a wallet-linked
\* creation request without a network of its own asks the agent for
\* did:ethr:<ETH_NETWORK>:<walletAddress>, and a resolve request for a
\* did:ethr DID on that network is passed to the resolver.
C14_CustomNetworkIsServed ==
    ( /\ env.ETH_NETWORK \notin {Undefined, EmptyString}
      /\ env.ETH_NETWORK \notin NetworkKeys
      /\ env.ETH_PROVIDER_URL \notin {Undefined, EmptyString} )
    => \A r \in Requests :
          /\ ( /\ req[r].op = "did/create"
               /\ req[r].body.provider = Str_did_ethr
               /\ ZeroXFortyHex(req[r].body.walletAddress)
               /\ req[r].body.network = Undefined )
             => req[r].agentCalls[1] =
                   Call("didManagerGet",
                        Str_did_ethr \o Colon \o env.ETH_NETWORK \o Colon
                            \o req[r].body.walletAddress)
          /\ ( /\ req[r].op = "did/resolve"
               /\ req[r].did = Str_did_ethr \o Colon \o env.ETH_NETWORK \o Colon \o WalletA )
             => /\ req[r].agentCalls = <<Call("resolveDid", req[r].did)>>
                /\ req[r].pc = "done" => req[r].resp.status # 400

\* ----------------------------------------------------------------- C15
\* The getCode call answered with code: a non-empty string other than 0x.
AnsweredWithCode(answer) ==
    ~answer.throws /\ answer.code \notin {Undefined, EmptyString, Code_None}

\* C15: the registry a probe returns differs from the configured one only if
\* the result is deployed, the configuration is named skale-titan and the
\* returned address is a candidate whose getCode call answered with code;
\* and when no getCode call answered with code the result is not deployed
\* and carries the configured registry.
C15_ProbeResultIsJustified ==
    boot.pc \in {"probed", "listening"} =>
        LET result == boot.registryCheck
            config == boot.networkConfig
        IN  /\ result.registry # config.registry
                  => /\ result.isDeployed
                     /\ config.name = Str_skale_titan
                     /\ \E i \in 1..Len(knownRegistries) :
                           /\ result.registry = knownRegistries[i]
                           /\ AnsweredWithCode(boot.chain.answers[i + 1])
            /\ (\A i \in 1..Len(boot.chain.answers) :
                    ~AnsweredWithCode(boot.chain.answers[i]))
                  => /\ ~result.isDeployed
                     /\ result.registry = config.registry

\* Witness of C15: the configured registry has no code, the first candidate's
\* query threw, and the probe returned the second candidate as deployed.
C15_Witness ==
    /\ boot.pc = "probed"
    /\ boot.networkConfig.registry = Registry_Custom
    /\ boot.chain.answers[1] = Answer(FALSE, Code_None)
    /\ boot.chain.answers[2].throws
    /\ boot.registryCheck.isDeployed
    /\ boot.registryCheck.registry = knownRegistries[2]

\* ----------------------------------------------------------------- C16
\* C16: the probe never ends the process: the process exits only on a failed
\* createConnection or createAgent; after the probe, whatever it returned,
\* initializeAgent goes on to createAgent, with two warnings exactly when the
\* result is not deployed, and the agent's provider takes the registry the
\* probe returned; and whether a creation or an issuance request succeeds is
\* settled by the request and by the agent's answer alone: a wallet-linked
\* creation succeeds, every other creation and every issuance with its
\* fields present succeeds exactly when the agent fulfilled its call.
C16_ProbeIsAdvisory ==
    /\ boot.pc = "exited" => boot.exit \in {"createConnection", "createAgent"}
    /\ boot.pc = "probed"
          => /\ ENABLED CreateAgent
             /\ boot.warnings = (IF boot.registryCheck.isDeployed THEN 0 ELSE 2)
    /\ boot.pc = "listening"
          => boot.provider.registry = boot.registryCheck.registry
    /\ \A r \in Requests :
          req[r].pc = "done"
          => /\ ( req[r].op = "did/create" /\ req[r].branch = "wallet-based" )
                   => req[r].resp.success
             /\ ( req[r].op = "did/create"
                  /\ req[r].branch \in {"generated-key", "self-issued"} )
                   => (req[r].resp.success <=> req[r].outcomes = <<"fulfilled">>)
             /\ ( req[r].op = "credential/create" /\ req[r].agentCalls # << >> )
                   => (req[r].resp.success <=> req[r].outcomes = <<"fulfilled">>)

\* Witness of C16: the probe found no registry deployed, and the server has
\* created an identity and issued a credential with it.
C16_Witness ==
    /\ boot.pc = "listening"
    /\ ~boot.registryCheck.isDeployed
    /\ boot.warnings = 2
    /\ \E q, r \in Requests :
          /\ req[q].op = "did/create" /\ req[q].pc = "done" /\ req[q].resp.success
          /\ req[r].op = "credential/create" /\ req[r].pc = "done"
          /\ req[r].resp.success
          /\ Len(credentials) = 1

\* The requests that a route answered with success
Succeeded(route) ==
    {r \in Requests : req[r].op = route /\ req[r].pc = "done" /\ req[r].resp.success}

\* C17: in the session-store server every successful POST /credential/create
\* adds an entry of its own to the credential store and every successful POST
\* /presentation/create adds one to the presentation store, so that after k
\* successful issuances the store, which is what the list route returns,
\* holds exactly k entries.
C17_EveryIssuanceKeepsItsEntry ==
    /\ Len(VCStore_getAllCredentials(credentials))
           = Cardinality(Succeeded("credential/create"))
    /\ Len(VCStore_getAllPresentations(presentations))
           = Cardinality(Succeeded("presentation/create"))

\* A store changes only by taking new keys after the ones it holds: the
\* keys it held keep their places, and no key occurs twice.
GrowsAtEnd(m, n) ==
    /\ Len(m) <= Len(n)
    /\ \A i \in 1..Len(m) : n[i].key = m[i].key
    /\ \A i, j \in 1..Len(n) : n[i].key = n[j].key => i = j

\* The step answers request r.
IsAnswered(r) == req[r] # req'[r] /\ req'[r].pc = "done"

\* C18: the three stores of the session-store server keep their keys in the
\* order of first insertion, each key once; a list route returns the value
\* of every entry once, in that order and from the first entry on, whatever
\* was enumerated before; GET /did/:did answers 404 and success=false for a
\* DID the registry does not hold and 200 with the stored record for one it
\* holds.
C18_EnumerationAndLookup ==
    [][ /\ GrowsAtEnd(dids, dids')
        /\ GrowsAtEnd(credentials, credentials')
        /\ GrowsAtEnd(presentations, presentations')
        /\ \A r \in Requests :
            IsAnswered(r) =>
              /\ req'[r].op = "did/list" =>
                    /\ req'[r].resp.success
                    /\ req'[r].resp.count = Len(dids)
                    /\ Len(req'[r].resp.identifiers) = Len(dids)
                    /\ \A i \in 1..Len(dids) :
                          req'[r].resp.identifiers[i] = dids[i].value
              /\ req'[r].op = "credential/list" =>
                    /\ req'[r].resp.success
                    /\ req'[r].resp.count = Len(credentials)
                    /\ Len(req'[r].resp.credentials) = Len(credentials)
                    /\ \A i \in 1..Len(credentials) :
                          req'[r].resp.credentials[i] = credentials[i].value.credential
              /\ req'[r].op = "presentation/list" =>
                    /\ req'[r].resp.success
                    /\ req'[r].resp.count = Len(presentations)
                    /\ Len(req'[r].resp.presentations) = Len(presentations)
                    /\ \A i \in 1..Len(presentations) :
                          req'[r].resp.presentations[i] = presentations[i].value.presentation
              /\ req'[r].op = "did/get" =>
                    IF \E i \in 1..Len(dids) : dids[i].key = req'[r].did
                    THEN /\ req'[r].resp.status = 200
                         /\ req'[r].resp.success
                         /\ \E i \in 1..Len(dids) :
                               /\ dids[i].key = req'[r].did
                               /\ req'[r].resp.record = <<dids[i].value>>
                    ELSE /\ req'[r].resp.status = 404
                         /\ ~req'[r].resp.success
                         /\ req'[r].resp.record = << >>
      ]_vars

\* Two identities are listed in the order they were registered, and the
\* second one was looked up, while the credential store holds an entry.
C18_Witness ==
    /\ Len(dids) = 2
    /\ Len(credentials) = 1
    /\ \E r, q \in Requests :
          /\ req[r].op = "did/list" /\ req[r].pc = "done"
          /\ req[r].resp.count = 2
          /\ req[r].resp.identifiers[1].did = IssuerIdentifier.did
          /\ req[r].resp.identifiers[2].did # IssuerIdentifier.did
          /\ req[q].op = "did/get" /\ req[q].pc = "done"
          /\ req[q].resp.status = 200
          /\ req[q].did = req[r].resp.identifiers[2].did

\* An agent call made for the request was rejected.
AgentCallThrew(r) == \E i \in 1..Len(req[r].outcomes) : req[r].outcomes[i] = "rejected"

\* C19: in server.js a request during which a call to the agent threw is
\* answered with success=false and an error message; resolution requests,
\* whose fallback is the one exception, are not among these requests.
C19_NoFailureBecomesSuccess ==
    \A r \in Requests :
        ( /\ req[r].pc = "done"
          /\ req[r].op \in {"did/create", "credential/verify-skale"}
          /\ AgentCallThrew(r) )
        => /\ ~req[r].resp.success
           /\ req[r].resp.error # Undefined

\* The request lacks a field its route requires.
MissingRequiredField(q) ==
    \/ /\ q.op = "credential/create"
       /\ \/ q.vcBody.issuerDid = Undefined
          \/ q.vcBody.subjectDid = Undefined
          \/ q.vcBody.credentialSubject = Undefined
    \/ /\ q.op = "credential/verify"
       /\ q.vcBody.credential = << >>
    \/ /\ q.op = "presentation/create"
       /\ \/ q.vcBody.holderDid = Undefined
          \/ ~q.vcBody.verifiableCredentials.isArray
    \/ /\ q.op = "presentation/verify"
       /\ q.vcBody.presentation = << >>

\* C20: in the session-store server a request to /credential/create,
\* /credential/verify, /presentation/create or /presentation/verify that
\* lacks a required field is answered in its first step with status 400 and
\* success=false, having made no agent call and stored nothing; the step
\* leaves the credential store, the presentation store and the DID registry
\* as they were.
C20_MissingFieldRejectedFirst ==
    [][ \A r \in Requests :
          ( /\ req[r] # req'[r]
            /\ MissingRequiredField(req'[r]) )
          => /\ req[r].pc = "idle"
             /\ req'[r].pc = "done"
             /\ req'[r].resp.status = 400
             /\ ~req'[r].resp.success
             /\ req'[r].resp.error # Undefined
             /\ req'[r].agentCalls = << >>
             /\ req'[r].stored = << >>
             /\ UNCHANGED <<dids, identifiers, credentials, presentations>>
      ]_vars

\* A credential request that names an issuer and claims but no subject and
\* a presentation request whose verifiableCredentials is not an array were
\* both answered 400 while the stores hold what they held.
C20_Witness ==
    \E r, q \in Requests :
        /\ req[r].op = "credential/create" /\ req[r].pc = "done"
        /\ req[r].vcBody.issuerDid = IssuerIdentifier.did
        /\ req[r].vcBody.credentialSubject = Str_claims
        /\ req[r].vcBody.subjectDid = Undefined
        /\ req[r].resp.status = 400
        /\ req[q].op = "presentation/create" /\ req[q].pc = "done"
        /\ req[q].vcBody.holderDid = IssuerIdentifier.did
        /\ ~req[q].vcBody.verifiableCredentials.isArray
        /\ req[q].resp.status = 400
        /\ Len(dids) = 1 /\ credentials = << >> /\ presentations = << >>

\* The probe of the start-up has returned.
Probed == boot.pc \in {"probed", "listening"}

\* The candidate addresses, as the claim lists them
Candidate1 == <<"0xdca7ef03e98e0dc2b855be647c39abe984fcf21b">>
Candidate2 == <<"0xd1d374dda6c5e1c0fd927de1c6c0e9cb7d7f12d3">>
Candidate3 == <<"0x0000000000000000000000000000000000000000">>

\* The k-th getCode call of the probe returned code.
CallFoundCode(k) ==
    /\ ~boot.chain.answers[k].throws
    /\ boot.chain.answers[k].code # Undefined
    /\ boot.chain.answers[k].code # EmptyString
    /\ boot.chain.answers[k].code # Code_None

\* The first getCode call returned, and returned no code.
PrimaryHasNoCode ==
    /\ ~boot.chain.providerThrows
    /\ ~boot.chain.answers[1].throws
    /\ ~CallFoundCode(1)

\* C21: a probe whose configured registry returned no code on skale-titan
\* queries the three candidates in their list order up to and including the
\* first that has code, returns that one as deployed, and queries none
\* after it; a probe whose configured registry has code, or whose network is
\* another one, queries no candidate; no probe makes more than four queries.
C21_CandidatesInOrderUntilFirstHit ==
    Probed =>
      LET rc == boot.registryCheck
          primary == boot.networkConfig.registry
          all == <<primary, Candidate1, Candidate2, Candidate3>>
      IN  /\ Len(rc.queries) <= 4
          /\ \A k \in 1..Len(rc.queries) : rc.queries[k] = all[k]
          /\ ( PrimaryHasNoCode /\ boot.networkConfig.name = Str_skale_titan ) =>
                IF \E k \in 2..4 : CallFoundCode(k)
                THEN LET hit == CHOOSE k \in 2..4 :
                                   CallFoundCode(k) /\ \A j \in 2..(k - 1) : ~CallFoundCode(j)
                     IN  /\ Len(rc.queries) = hit
                         /\ rc.isDeployed
                         /\ rc.registry = all[hit]
                ELSE /\ Len(rc.queries) = 4
                     /\ ~rc.isDeployed
                     /\ rc.registry = primary
          /\ ( (~boot.chain.providerThrows /\ CallFoundCode(1))
               \/ boot.networkConfig.name # Str_skale_titan ) =>
                /\ Len(rc.queries) <= 1
                /\ rc.registry = primary

\* On skale-titan the configured registry and the first candidate returned
\* no code and the second candidate returned code: three queries were made
\* and the second candidate came back as deployed, while the fourth call
\* would have found code too.
C21_Witness ==
    /\ Probed
    /\ boot.networkConfig.name = Str_skale_titan
    /\ PrimaryHasNoCode
    /\ ~CallFoundCode(2) /\ CallFoundCode(3) /\ CallFoundCode(4)
    /\ boot.registryCheck.queries =
          <<boot.networkConfig.registry, Candidate1, Candidate2>>
    /\ boot.registryCheck.isDeployed
    /\ boot.registryCheck.registry = Candidate2

\* getCode threw for the configured registry address.
PrimaryQueryThrew == ~boot.chain.providerThrows /\ boot.chain.answers[1].throws

\* C22: a chain-query error on the configured registry address counts as
\* not deployed for that address only; on skale-titan the candidates are
\* still probed, and a candidate that has code is returned as deployed.
C22_PrimaryErrorStillProbesCandidates ==
    ( /\ Probed
      /\ boot.networkConfig.name = Str_skale_titan
      /\ PrimaryQueryThrew
      /\ \E k \in 2..4 : CallFoundCode(k) ) =>
        /\ boot.registryCheck.isDeployed
        /\ boot.registryCheck.registry \in {Candidate1, Candidate2, Candidate3}

\* C23: the getCode error of one candidate is not fatal: the candidate
\* counts as not deployed, the candidates after it are still queried in
\* order, and a later candidate that has code is returned as deployed.
C23_CandidateErrorIsNotFatal ==
    \A k \in 2..3 :
      ( /\ Probed
        /\ boot.networkConfig.name = Str_skale_titan
        /\ PrimaryHasNoCode
        /\ boot.chain.answers[k].throws
        /\ \A j \in 2..(k - 1) : ~CallFoundCode(j) ) =>
          LET rc == boot.registryCheck
              all == <<boot.networkConfig.registry, Candidate1, Candidate2, Candidate3>>
          IN  /\ Len(rc.queries) > k
              /\ rc.queries[k + 1] = all[k + 1]
              /\ CallFoundCode(k + 1) =>
                    /\ rc.isDeployed
                    /\ rc.registry = all[k + 1]
                    /\ Len(rc.queries) = k + 1
              /\ ( k = 2 /\ ~CallFoundCode(3) /\ CallFoundCode(4) ) =>
                    /\ rc.isDeployed
                    /\ rc.registry = Candidate3
              /\ ( \A j \in (k + 1)..4 : ~CallFoundCode(j) ) =>
                    /\ ~rc.isDeployed
                    /\ rc.registry = boot.networkConfig.registry
                    /\ Len(rc.queries) = 4

\* On skale-titan the configured registry had no code, the queries of the
\* first and of the second candidate threw, and the third candidate was
\* returned as deployed.
C23_Witness ==
    /\ Probed
    /\ boot.networkConfig.name = Str_skale_titan
    /\ PrimaryHasNoCode
    /\ boot.chain.answers[2].throws /\ boot.chain.answers[3].throws
    /\ CallFoundCode(4)
    /\ boot.registryCheck.isDeployed
    /\ boot.registryCheck.registry = Candidate3
    /\ Len(boot.registryCheck.queries) = 4

\* C24: the registry the probe returned at start-up is the registry of the
\* agent for the active network, in the did:ethr provider and in the DID
\* resolver alike; a candidate the probe substituted is used by both.
C24_ProviderAndResolverUseEffectiveRegistry ==
    Listening =>
        /\ boot.provider.network = boot.networkConfig.name
        /\ boot.provider.registry = boot.registryCheck.registry
        /\ \E n \in 1..Len(boot.resolver) :
              /\ boot.resolver[n].name = boot.networkConfig.name
              /\ boot.resolver[n].registry = boot.registryCheck.registry

\* C25: every GET /did/:did/resolve first calls agent.resolveDid with the
\* full DID it was given; no fallback document and no error response is
\* written by a request that has not called the resolver.
C25_ResolverIsCalledFirst ==
    \A r \in Requests :
        req[r].op = "did/resolve" =>
            /\ Len(req[r].agentCalls) >= 1
            /\ req[r].agentCalls[1] = Call("resolveDid", req[r].did)

\* The agent call of a creating request has thrown and the handler has not
\* answered yet.
CreateCallThrew(r) ==
    req[r].pc \in {"didManagerCreate rejected",
                   "createVerifiableCredential rejected",
                   "createVerifiablePresentation rejected"}

\* C26: in the session-store server a creating request whose agent call
\* threw answers success = false with the agent's message, has called the
\* agent once, and leaves DIDRegistry and VCStore as they are; a record of a
\* path that calls the agent is written only by a request whose call has
\* returned.
C26_FailedAgentCallWritesNothing ==
    [][ /\ \A r \in Requests :
            ( CreateCallThrew(r) /\ req'[r].pc = "done" ) =>
                /\ req'[r].resp.success = FALSE
                /\ req'[r].resp.status = 500
                /\ req'[r].resp.error = req[r].error
                /\ req[r].error = Msg_AgentFailure
                /\ Len(req'[r].agentCalls) = 1
                /\ req'[r].outcomes = <<"rejected">>
                /\ req'[r].stored = << >>
                /\ req'[r].registered = Undefined
                /\ dids' = dids
                /\ credentials' = credentials
                /\ presentations' = presentations
        /\ \A r \in Requests :
            CreateCallThrew(r) => Len(req'[r].agentCalls) = 1
        /\ dids' # dids =>
              \E r \in Requests :
                  /\ req'[r].pc = "done"
                  /\ \/ req[r].pc = "didManagerCreate fulfilled"
                     \/ req'[r].branch = "wallet-based" /\ req[r].pc # "done"
        /\ credentials' # credentials =>
              \E r \in Requests :
                  /\ req[r].pc = "createVerifiableCredential fulfilled"
                  /\ req'[r].pc = "done"
        /\ presentations' # presentations =>
              \E r \in Requests :
                  /\ req[r].pc = "createVerifiablePresentation fulfilled"
                  /\ req'[r].pc = "done"
      ]_vars

\* A did/create request for a generated key was answered 500 with the
\* agent's message after didManagerCreate threw, a second one was answered
\* 200 and registered, and the registry holds the second one's record only.
C26_Witness ==
    /\ req[1].op = "did/create" /\ req[1].pc = "done"
    /\ req[1].branch = "generated-key"
    /\ req[1].outcomes = <<"rejected">>
    /\ req[1].resp.status = 500 /\ req[1].resp.error = Msg_AgentFailure
    /\ req[2].op = "did/create" /\ req[2].pc = "done"
    /\ req[2].outcomes = <<"fulfilled">>
    /\ req[2].resp.status = 200
    /\ Len(MapValues(dids)) = 1
    /\ MapHas(dids, req[2].registered)
    /\ MapValues(credentials) = << >>
    /\ MapValues(presentations) = << >>

\* The routes of the session-store server that create nothing
ReadingRoutes ==
    {"credential/verify", "presentation/verify", "did/list", "did/get",
     "credential/list", "presentation/list", "did/resolve"}

\* Request r takes the step.
Steps(r) == req'[r] # req[r]

\* C27: in the session-store server a step of a did/create request changes
\* of the three maps DIDRegistry.dids only, one of a credential/create
\* request VCStore.credentials only, one of a presentation/create request
\* VCStore.presentations only, and a step of a verify, list, get or resolve
\* request changes none; an issuing request with all three fields goes to
\* the agent whether or not DIDRegistry holds its issuer or its subject,
\* and what the agent signed is saved.
C27_KeyspacesAreIndependent ==
    [][ \A r \in Requests :
          Steps(r) =>
            /\ req'[r].op = "did/create" =>
                  credentials' = credentials /\ presentations' = presentations
            /\ req'[r].op = "credential/create" =>
                  dids' = dids /\ presentations' = presentations
            /\ req'[r].op = "presentation/create" =>
                  dids' = dids /\ credentials' = credentials
            /\ req'[r].op \in ReadingRoutes =>
                  /\ dids' = dids
                  /\ credentials' = credentials
                  /\ presentations' = presentations
            /\ ( /\ req'[r].op = "credential/create"
                 /\ req[r].pc = "idle"
                 /\ Truthy(req'[r].vcBody.issuerDid)
                 /\ Truthy(req'[r].vcBody.subjectDid)
                 /\ Truthy(req'[r].vcBody.credentialSubject) ) =>
                    /\ req'[r].pc = "await createVerifiableCredential"
                    /\ req'[r].agentCalls =
                          <<Call("createVerifiableCredential", req'[r].vcBody.issuerDid)>>
            /\ ( /\ req'[r].op = "credential/create"
                 /\ req[r].pc = "createVerifiableCredential fulfilled" ) =>
                    /\ req'[r].resp.status = 200
                    /\ Len(credentials') = Len(credentials) + 1
                       \/ \E i \in 1..Len(credentials) :
                             credentials[i].key = req'[r].resp.credentialId
      ]_vars

\* An issuing request that named an issuer DIDRegistry does not hold was
\* handed to the agent and answered with the agent's error, and one that
\* named a subject DIDRegistry does not hold was answered 200 and saved;
\* DIDRegistry still holds the issuer's record only.
C27_Witness ==
    /\ req[1].op = "credential/create" /\ req[1].pc = "done"
    /\ req[1].vcBody.issuerDid = UnregisteredDid
    /\ ~MapHas(dids, req[1].vcBody.issuerDid)
    /\ req[1].agentCalls = <<Call("createVerifiableCredential", UnregisteredDid)>>
    /\ req[1].resp.status = 500 /\ req[1].resp.error = Msg_AgentFailure
    /\ req[2].op = "credential/create" /\ req[2].pc = "done"
    /\ ~MapHas(dids, req[2].vcBody.subjectDid)
    /\ req[2].resp.status = 200
    /\ Len(credentials) = 1
    /\ Len(dids) = 1
    /\ Len(presentations) = 0

\* C28: POST /credential/verify-skale reports verification.verified = true
\* only for a credential agent.verifyCredential accepted; a credential for
\* which agent.verifyCredential threw is never reported as verified.
C28_VerifiedOnlyByTheVerifier ==
    \A r \in Requests :
        ( /\ req[r].op = "credential/verify-skale"
          /\ req[r].pc = "done"
          /\ req[r].outcomes = <<"rejected">> )
        => \A i \in 1..Len(req[r].resp.verification) :
              ~req[r].resp.verification[i].verified

\* C29: a wallet-linked DID that POST /did/create accepted and returned,
\* whatever network the request named, is never answered by
\* GET /did/:did/resolve of the same server with the 400 error that its
\* network is not configured.
C29_CreatedDidIsResolvable ==
    \A r \in Requests :
        ( /\ req[r].op = "did/resolve"
          /\ req[r].pc = "done"
          /\ MapHas(dids, req[r].did)
          /\ MapGet(dids, req[r].did).type = Str_wallet_based )
        => req[r].resp.status # 400

\* String.prototype.toLowerCase on the characters of a hex string
LowerChar(c) ==
    CASE c = "A" -> "a" [] c = "B" -> "b" [] c = "C" -> "c"
      [] c = "D" -> "d" [] c = "E" -> "e" [] c = "F" -> "f"
      [] OTHER -> c

ToLowerCase(str) == [i \in 1..Len(str) |-> LowerChar(str[i])]

\* The preset a network name denotes: skale is the alias of skale-titan.
CanonicalNetwork(network) ==
    IF network = Str_skale THEN Str_skale_titan ELSE network

\* C30: DIDRegistry holds at most one wallet-linked record for a wallet and
\* a network, where wallet addresses that differ in the letter case of
\* their hex digits are the same wallet and skale is the same network as
\* skale-titan.
C30_WalletKeyIsCanonical ==
    \A i, j \in 1..Len(dids) :
        ( /\ dids[i].value.type = Str_wallet_based
          /\ dids[j].value.type = Str_wallet_based
          /\ ToLowerCase(dids[i].value.walletAddress)
                = ToLowerCase(dids[j].value.walletAddress)
          /\ CanonicalNetwork(dids[i].value.network)
                = CanonicalNetwork(dids[j].value.network) )
        => i = j

====
